---- MODULE Spec2Model ----
(***************************************************************************)
(* A model of the image stack engine of pysegtools:                        *)
(*   images/_stack.py     ImageStack, ImageSlice (cache, homogeneity)      *)
(*   images/io/_stack.py  FileImageStack, FileImageSlice (set/insert/del)  *)
(*                        FileImageStackHeader, FileImageStack.open        *)
(* and of its labeling engine:                                             *)
(*   images/filters/label.py  merge, number, label, relabel                *)
(* Indices are 0-based as in the Python source; TLA+ sequences are 1-based *)
(* so the slice at index i is slices[i+1].                                 *)
(***************************************************************************)
EXTENDS Integers, Sequences, FiniteSets, TLC

VARIABLES
    slices,       \* ImageStack._slices: sequence of [z, im, cache, writeable];
                  \* writeable is flags.writeable of the array in cache
    d,            \* ImageStack._d
    cache_size,   \* ImageStack._cache_size: 0 off, -1 unlimited, N > 0
    cache,        \* ImageStack._cache: keys of the OrderedDict, LRU first
    homogeneous,  \* ImageStack._homogeneous: Unknown (None) or flag bits
    readonly,     \* FileImageStack._readonly
    header,       \* FileImageStackHeader._data: field name -> value
    pool,         \* the images the callers of this behaviour hand in
    last,         \* the call in progress: [op, res, a, ims], or Idle
    pre,          \* the stack as it was when that call began
    recent,       \* history: distinct indices read/written, oldest first;
                  \* NoHistory where the specification keeps none
    numbering     \* the ConsecutivelyNumberImageStack built over a stack of
                  \* label images, or NoNumbering

vars == <<slices, d, cache_size, cache, homogeneous, readonly, header, pool, last, pre,
          recent, numbering>>

----------------------------------------------------------------------------
(* Bounds of the model *)

MaxDepth == 3
MaxCache == 2
MaxIms == 2
MaxItems == 2
MaxAdapters == 3
MaxLen == 3
MaxRows == 2
MaxCols == 3
MaxPixels == 2
ByteBits == 2
MaxSlices == 2
MaxComputed == 3

----------------------------------------------------------------------------
(* Homogeneous flags (images/_stack.py, class Homogeneous) *)

Neither == 0
Shape == 1
DType == 2
Both == 3
Unknown == -1

HasFlag(h, f) == (h \div f) % 2 = 1
ClearFlag(h, f) == IF HasFlag(h, f) THEN h - f ELSE h

----------------------------------------------------------------------------
(* Images: what a caller can hand to the stack.  Each has a shape and an   *)
(* element type; the format refuses "R" in _set_data.  "Gap" is the space  *)
(* an insertion has made and not yet written.                              *)

Images == {"A", "B", "C", "R"}
Gap == "Gap"
NoData == "None"

ImShape(im) == CASE im = "B" -> 2 [] im = "R" -> 3 [] im = Gap -> 0 [] OTHER -> 1
ImDType(im) == CASE im = "C" -> 2 [] im = "R" -> 3 [] im = Gap -> 0 [] OTHER -> 1
Acceptable(im) == im # "R"

----------------------------------------------------------------------------
(* Sequence helpers *)

Keys(c) == {c[k] : k \in 1..Len(c)}
Without(c, i) == SelectSeq(c, LAMBDA x : x # i)
Contents(ss) == [k \in 1..Len(ss) |-> ss[k].im]
Min(a, b) == IF a < b THEN a ELSE b
Max(a, b) == IF a > b THEN a ELSE b

(* The stack as one value, threaded through the steps of an operation;     *)
(* err is "ok" until a step raises, and then names the exception.          *)
St == [slices |-> slices, d |-> d, cache_size |-> cache_size, cache |-> cache,
       hom |-> homogeneous, header |-> header, err |-> "ok"]

Raise(S, e) == [S EXCEPT !.err = e]

NoHistory == <<-1>>
NoNumbering ==
    [strategy |-> "none", ims |-> <<>>, ordered |-> FALSE, have_cython |-> FALSE,
     has_data |-> FALSE, n_labels |-> -1, calc_im |-> "_calc_im", vals |-> <<>>,
     pos0 |-> 0, renumbered |-> <<>>, outs |-> <<>>, seen |-> {}, computed |-> 0]
Idle == [op |-> "idle", res |-> "ok", a |-> <<>>, ims |-> <<>>]
NoPre == [slices |-> <<>>, d |-> 0, cache_size |-> 0, cache |-> <<>>,
          hom |-> Both, header |-> <<>>, err |-> "ok"]

----------------------------------------------------------------------------
(* ImageStack._cache_it *)

\* self._cache.pop(i, False); when the map is full popitem(False) removes the
\* least recently used entry and returns the pair (key, True), which then
\* indexes the list self._slices: TypeError, raised after the entry is gone.
_cache_it(S, i) ==
    LET already == i \in Keys(S.cache)
        c1 == Without(S.cache, i)
    IN  IF ~already /\ Len(c1) = S.cache_size
        THEN Raise([S EXCEPT !.cache = Tail(c1)], "TypeError")
        ELSE [S EXCEPT !.cache = Append(c1, i)]

----------------------------------------------------------------------------
(* ImageStack._get_homogeneous_info / _update_homogeneous_set *)

SlShape(s) == ImShape(s.im)
SlDType(s) == ImDType(s.im)

ComputeHomogeneous(ss) ==
    (IF \A k \in 2..Len(ss) : SlShape(ss[k]) = SlShape(ss[1]) THEN Shape ELSE Neither)
  + (IF \A k \in 2..Len(ss) : SlDType(ss[k]) = SlDType(ss[1]) THEN DType ELSE Neither)

_get_homogeneous_info(S) ==
    IF S.d = 0 THEN S
    ELSE IF S.hom = Unknown THEN [S EXCEPT !.hom = ComputeHomogeneous(S.slices)]
    ELSE S

\* s = self._slices[-1 if z == 0 else 0]; "Homogeneous.Shape in None" raises
_update_homogeneous_set(S, z, shape, dtype) ==
    LET s == IF z = 0 THEN S.slices[Len(S.slices)] ELSE S.slices[1]
    IN  IF S.hom = Unknown THEN Raise(S, "TypeError")
        ELSE LET h1 == IF HasFlag(S.hom, Shape) /\ shape # SlShape(s)
                       THEN ClearFlag(S.hom, Shape) ELSE S.hom
                 h2 == IF HasFlag(h1, DType) /\ dtype # SlDType(s)
                       THEN ClearFlag(h1, DType) ELSE h1
             IN  [S EXCEPT !.hom = h2]

----------------------------------------------------------------------------
(* ImageSlice.data (getter) and FileImageSlice.data (setter) of the slice  *)
(* standing at position p of the list; its key in the cache is its own _z. *)

data(S, p) ==
    IF S.cache_size = 0 THEN S
    ELSE LET z == S.slices[p + 1].z
             hit == z \in Keys(S.cache)
             S1 == _cache_it(S, z)
         IN  IF S1.err # "ok" THEN S1
             ELSE IF hit THEN S1
             ELSE [S1 EXCEPT !.slices[p + 1].cache = S1.slices[p + 1].im]

\* What the format's _get_data does when the getter calls it: it returns an
\* array that is read-only or one that is writeable (the method is abstract
\* and promises only shape and dtype), or it raises.
GetDataOutcomes == {"readonly", "writeable", "raises"}

\* The getter again, with the outcome of _get_data as an input; data(S, p)
\* above is the getter over a format that returns read-only arrays.
data_with(S, p, got) ==
    IF S.cache_size = 0
    THEN IF got = "raises" THEN Raise(S, "IOError") ELSE S
    ELSE LET z == S.slices[p + 1].z
             hit == z \in Keys(S.cache)
             S1 == _cache_it(S, z)
         IN  IF S1.err # "ok" THEN S1
             ELSE IF hit THEN S1
             ELSE IF got = "raises" THEN Raise(S1, "IOError")
             ELSE [S1 EXCEPT !.slices[p + 1].cache = S1.slices[p + 1].im,
                             !.slices[p + 1].writeable = (got = "writeable")]

\* self._cache_data(self._set_data(ImageSource.as_image_source(im)))
_cache_data(S, p, im) ==
    LET z == S.slices[p + 1].z
        S1 == IF S.cache_size = 0 THEN S ELSE _cache_it(S, z)
        S2 == IF S.cache_size = 0 THEN S
              ELSE [S1 EXCEPT !.slices[p + 1].cache = im,
                              !.slices[p + 1].writeable = FALSE]
    IN  IF S1.err # "ok" THEN S1
        ELSE _update_homogeneous_set(S2, z, ImShape(im), ImDType(im))

\* A variant in which the image is stored before the format looks at it.
set_data_stores_first(S, p, im) ==
    IF ~Acceptable(im) THEN Raise([S EXCEPT !.slices[p + 1].im = im], "Rejected")
    ELSE _cache_data([S EXCEPT !.slices[p + 1].im = im], p, im)

set_data(S, p, im) ==
    IF ~Acceptable(im) THEN Raise(S, "Rejected")
    ELSE _cache_data([S EXCEPT !.slices[p + 1].im = im], p, im)

----------------------------------------------------------------------------
(* Python's slice objects.  A slice is [start, stop, step]; each of start  *)
(* and stop is <<>> (None) or <<n>>; step is a non-zero integer.           *)

\* slice.indices(n), as called in __set_slice and __delitem__
indices(sl, n) ==
    LET step == sl.step
        lower == IF step > 0 THEN 0 ELSE -1
        upper == IF step > 0 THEN n ELSE n - 1
        clamp(v) == IF v < 0 THEN Max(v + n, lower) ELSE Min(v, upper)
        start == IF sl.start = <<>> THEN (IF step < 0 THEN upper ELSE lower)
                 ELSE clamp(sl.start[1])
        stop == IF sl.stop = <<>> THEN (IF step < 0 THEN lower ELSE upper)
                ELSE clamp(sl.stop[1])
    IN  [start |-> start, stop |-> stop, step |-> step]

\* ceil(a / b) of true division, b # 0
CeilDiv(a, b) == IF b > 0 THEN -((-a) \div b) ELSE -(a \div (-b))

slice_len(start, stop, step) == Max(CeilDiv(stop - start, step), 0)

\* xrange(start, stop, step) as a sequence
xrange(start, stop, step) ==
    [k \in 1..slice_len(start, stop, step) |-> start + (k - 1) * step]

SubSeqFrom(s, k) == SubSeq(s, k + 1, Len(s))      \* s[k:]
Reverse(s) == [k \in 1..Len(s) |-> s[Len(s) + 1 - k]]

----------------------------------------------------------------------------
(* FileImageStack._delete_slices / _insert_slices *)

Renumber(ss, from) ==
    [k \in 1..Len(ss) |-> IF k - 1 >= from THEN [ss[k] EXCEPT !.z = k - 1] ELSE ss[k]]

RekeyDelete(c, start, stop) ==
    LET kept == SelectSeq(c, LAMBDA i : i < start \/ i >= stop)
    IN  [k \in 1..Len(kept) |->
            IF kept[k] >= stop THEN kept[k] - (stop - start) ELSE kept[k]]

\* A variant that leaves every slice the index it had.
_delete_slices_keeps_z(S, start, stop) ==
    LET ss == stop - start
        c1 == IF S.cache_size # 0 THEN RekeyDelete(S.cache, start, stop) ELSE S.cache
        l1 == SubSeq(S.slices, 1, start) \o SubSeq(S.slices, stop + 1, Len(S.slices))
        d1 == S.d - ss
        h1 == IF d1 <= 1 THEN Both
              ELSE IF S.hom # Both THEN Unknown ELSE S.hom
    IN  [S EXCEPT !.cache = c1, !.slices = l1, !.d = d1, !.hom = h1]

\* A variant that drops the deleted keys from the map and shifts none.
_delete_slices_keeps_keys(S, start, stop) ==
    LET ss == stop - start
        c1 == IF S.cache_size # 0
              THEN SelectSeq(S.cache, LAMBDA i : i < start \/ i >= stop)
              ELSE S.cache
        l1 == SubSeq(S.slices, 1, start) \o SubSeq(S.slices, stop + 1, Len(S.slices))
        d1 == S.d - ss
        h1 == IF d1 <= 1 THEN Both
              ELSE IF S.hom # Both THEN Unknown ELSE S.hom
    IN  [S EXCEPT !.cache = c1, !.slices = Renumber(l1, start), !.d = d1, !.hom = h1]

_delete_slices(S, start, stop) ==
    LET ss == stop - start
        c1 == IF S.cache_size # 0 THEN RekeyDelete(S.cache, start, stop) ELSE S.cache
        l1 == SubSeq(S.slices, 1, start) \o SubSeq(S.slices, stop + 1, Len(S.slices))
        d1 == S.d - ss
        h1 == IF d1 <= 1 THEN Both
              ELSE IF S.hom # Both THEN Unknown ELSE S.hom
    IN  [S EXCEPT !.cache = c1, !.slices = Renumber(l1, start), !.d = d1, !.hom = h1]

RekeyInsert(c, idx, ln) ==
    [k \in 1..Len(c) |-> IF c[k] >= idx THEN c[k] + ln ELSE c[k]]

_insert_slices(S, idx, new) ==
    LET ln == Len(new)
        l1 == SubSeq(S.slices, 1, idx) \o new \o SubSeq(S.slices, idx + 1, Len(S.slices))
        c1 == IF S.cache_size # 0 THEN RekeyInsert(S.cache, idx, ln) ELSE S.cache
    IN  [S EXCEPT !.slices = Renumber(l1, idx + ln), !.d = S.d + ln, !.cache = c1]

----------------------------------------------------------------------------
(* The format's _delete and _insert, by the contract their declarations    *)
(* document.  A call outside that contract ends the behaviour: what a      *)
(* format does with it is not defined by the stack engine.                 *)

RECURSIVE DeleteRanges(_, _)
DeleteRanges(S, idxs) ==
    IF idxs = <<>> THEN S
    ELSE DeleteRanges(_delete_slices(S, idxs[1][1], idxs[1][2]), Tail(idxs))

DeleteContract(S, idxs) ==
    /\ \A k \in 1..Len(idxs) : 0 <= idxs[k][1] /\ idxs[k][1] < idxs[k][2] /\ idxs[k][2] <= S.d
    /\ \A k \in 1..Len(idxs) - 1 : idxs[k + 1][2] <= idxs[k][1]

_delete(S, idxs) ==
    IF ~DeleteContract(S, idxs) THEN Raise(S, "OutOfContract")
    ELSE DeleteRanges(S, idxs)

\* One write after the other; the first that raises ends the loop.
RECURSIVE WriteAll(_, _, _)
WriteAll(S, ps, ims) ==
    IF S.err # "ok" \/ ps = <<>> THEN S
    ELSE WriteAll(set_data(S, ps[1], ims[1]), Tail(ps), Tail(ims))

NewSlices(idx, ln) == [k \in 1..ln |-> [z |-> idx + k - 1, im |-> Gap, cache |-> NoData, writeable |-> FALSE]]

_insert(S, idx, ims) ==
    IF ~(0 <= idx /\ idx <= S.d) THEN Raise(S, "OutOfContract")
    ELSE WriteAll(_insert_slices(S, idx, NewSlices(idx, Len(ims))),
                  [k \in 1..Len(ims) |-> idx + k - 1], ims)

----------------------------------------------------------------------------
(* FileImageStack.__setitem__: __set_int, __set_slice, __set_iter *)

set_int(S, idx0, im) ==
    LET idx == IF idx0 < 0 THEN idx0 + S.d ELSE idx0
    IN  IF ~(0 <= idx /\ idx <= S.d) THEN Raise(S, "IndexError")
        ELSE IF idx = S.d THEN _insert(S, idx, <<im>>)
        ELSE set_data(S, idx, im)

\* A variant that compares the lengths of a stepped set after writing.
set_slice_writes_before_check(S, sl, ims) ==
    LET ix == indices(sl, S.d)
        start == ix.start
        stop == ix.stop
        step == ix.step
        length == slice_len(start, stop, step)
        n == Min(length, Len(ims))
    IN  IF step = 1 THEN
            LET S1 == WriteAll(S, [k \in 1..n |-> start + k - 1], SubSeq(ims, 1, n))
            IN  IF S1.err # "ok" THEN S1
                ELSE IF Len(ims) < length THEN _delete(S1, <<<<start + Len(ims), stop>>>>)
                ELSE IF Len(ims) > length THEN _insert(S1, stop, SubSeqFrom(ims, length))
                ELSE S1
        ELSE IF step = -1 THEN
            LET S1 == WriteAll(S, [k \in 1..n |-> start - (k - 1)], SubSeq(ims, 1, n))
            IN  IF S1.err # "ok" THEN S1
                ELSE IF Len(ims) < length
                     THEN _delete(S1, <<<<stop, start - Len(ims) + 1>>>>)
                ELSE IF Len(ims) > length
                     \* ims[:length-1:-1]; with length = 0 the stop -1 means the
                     \* last element, and the slice is empty
                     THEN _insert(S1, stop + 1,
                                  IF length = 0 THEN <<>>
                                  ELSE Reverse(SubSeqFrom(ims, length)))
                ELSE S1
        ELSE LET S1 == WriteAll(S, [k \in 1..n |-> start + (k - 1) * step],
                                SubSeq(ims, 1, n))
             IN  IF S1.err = "ok" /\ Len(ims) # length THEN Raise(S1, "ValueError")
                 ELSE S1

set_slice(S, sl, ims) ==
    LET ix == indices(sl, S.d)
        start == ix.start
        stop == ix.stop
        step == ix.step
        length == slice_len(start, stop, step)
        n == Min(length, Len(ims))
    IN  IF step = 1 THEN
            LET S1 == WriteAll(S, [k \in 1..n |-> start + k - 1], SubSeq(ims, 1, n))
            IN  IF S1.err # "ok" THEN S1
                ELSE IF Len(ims) < length THEN _delete(S1, <<<<start + Len(ims), stop>>>>)
                ELSE IF Len(ims) > length THEN _insert(S1, stop, SubSeqFrom(ims, length))
                ELSE S1
        ELSE IF step = -1 THEN
            LET S1 == WriteAll(S, [k \in 1..n |-> start - (k - 1)], SubSeq(ims, 1, n))
            IN  IF S1.err # "ok" THEN S1
                ELSE IF Len(ims) < length
                     THEN _delete(S1, <<<<stop, start - Len(ims) + 1>>>>)
                ELSE IF Len(ims) > length
                     \* ims[:length-1:-1]; with length = 0 the stop -1 means the
                     \* last element, and the slice is empty
                     THEN _insert(S1, stop + 1,
                                  IF length = 0 THEN <<>>
                                  ELSE Reverse(SubSeqFrom(ims, length)))
                ELSE S1
        ELSE IF Len(ims) # length THEN Raise(S, "ValueError")
        ELSE WriteAll(S, [k \in 1..Len(ims) |-> start + (k - 1) * step], ims)

\* the reduce of __set_iter: the depth the indices lead to, or -1 (IndexError)
RECURSIVE IterCheck(_, _)
IterCheck(dd, idx) ==
    IF idx = <<>> THEN dd
    ELSE IF 0 <= idx[1] /\ idx[1] <= dd
         THEN IterCheck(IF idx[1] = dd THEN dd + 1 ELSE dd, Tail(idx))
         ELSE -1

RECURSIVE IterWrite(_, _, _)
IterWrite(S, idx, ims) ==
    IF S.err # "ok" \/ idx = <<>> THEN S
    ELSE IterWrite(IF idx[1] = S.d THEN _insert(S, S.d, <<ims[1]>>)
                   ELSE set_data(S, idx[1], ims[1]),
                   Tail(idx), Tail(ims))

set_iter(S, idx0, ims) ==
    LET idx == [k \in 1..Len(idx0) |-> IF idx0[k] < 0 THEN idx0[k] + S.d ELSE idx0[k]]
    IN  IF IterCheck(S.d, idx) < 0 THEN Raise(S, "IndexError")
        ELSE IF Len(ims) # Len(idx) THEN Raise(S, "ValueError")
        ELSE IterWrite(S, idx, ims)

(* append, extend, insert *)
append(S, im) == _insert(S, S.d, <<im>>)
extend(S, ims) == _insert(S, S.d, ims)
insert(S, i, im) == _insert(S, i, <<im>>)

----------------------------------------------------------------------------
(* FileImageStack.__delitem__, shorten, clear *)

del_int(S, idx0) ==
    LET idx == IF idx0 < 0 THEN idx0 + S.d ELSE idx0
    IN  IF ~(0 <= idx /\ idx < S.d) THEN Raise(S, "IndexError")
        ELSE _delete(S, <<<<idx, idx + 1>>>>)

\* the (start, stop) ranges a slice index is turned into
SliceRanges(sl, n) ==
    LET ix == indices(sl, n)
        \* make step negative so we always move from the end towards the beginning
        start == IF ix.step > 0 THEN ix.stop - 1 ELSE ix.start
        stop == IF ix.step > 0 THEN ix.start - 1 ELSE ix.stop
        step == IF ix.step > 0 THEN -ix.step ELSE ix.step
        xs == xrange(start, stop, step)
    IN  IF step = -1 THEN <<<<stop + 1, start + 1>>>>
        ELSE [k \in 1..Len(xs) |-> <<xs[k], xs[k] + 1>>]

del_slice(S, sl) ==
    LET ix == indices(sl, S.d)
    IN  IF slice_len(ix.start, ix.stop, ix.step) = 0 THEN S
        ELSE _delete(S, SliceRanges(sl, S.d))

\* sorted(set(...), reverse=True)
RECURSIVE SortedDesc(_)
SortedDesc(xs) ==
    IF xs = {} THEN <<>>
    ELSE LET m == CHOOSE x \in xs : \A y \in xs : y <= x
         IN  <<m>> \o SortedDesc(xs \ {m})

\* the loop that joins neighbouring indices into ranges
RECURSIVE JoinRanges(_, _, _)
JoinRanges(idxx, acc, prev) ==
    IF idxx = <<>> THEN acc
    ELSE LET i == idxx[1]
         IN  JoinRanges(Tail(idxx),
                        IF prev = i + 1
                        THEN [acc EXCEPT ![Len(acc)] = <<i, acc[Len(acc)][2]>>]
                        ELSE Append(acc, <<i, i + 1>>),
                        i)

del_iter(S, idx0) ==
    LET idxx == SortedDesc({IF idx0[k] < 0 THEN idx0[k] + S.d ELSE idx0[k] : k \in 1..Len(idx0)})
    IN  IF Len(idxx) = 0 THEN S
        ELSE IF idxx[Len(idxx)] < 0 \/ idxx[1] >= S.d THEN Raise(S, "IndexError")
        ELSE _delete(S, JoinRanges(idxx, <<>>, -1))

shorten(S, count) ==
    IF count <= 0 \/ count > S.d THEN Raise(S, "ValueError")
    ELSE _delete(S, <<<<S.d - count, S.d>>>>)

clear(S) == _delete(S, <<<<0, S.d>>>>)

----------------------------------------------------------------------------
(* ImageStack.cache_size (setter) *)

\* while len(self._cache) > value: self._slices[self._cache.popitem(False)[0]]._cache = None
RECURSIVE Shrink(_, _)
Shrink(S, value) ==
    IF Len(S.cache) <= value THEN S
    ELSE Shrink([S EXCEPT !.slices[Head(S.cache) + 1].cache = NoData,
                          !.cache = Tail(S.cache)], value)

\* A variant that evicts from the most recently used end of the map.
set_cache_size_evicts_newest(S, value) ==
    IF value < -1 THEN Raise(S, "ValueError")
    ELSE IF value = 0 THEN
        [S EXCEPT !.cache = <<>>, !.cache_size = value,
                  !.slices = [k \in 1..Len(S.slices) |->
                                 [S.slices[k] EXCEPT !.cache = NoData]]]
    ELSE IF S.cache_size = 0 THEN [S EXCEPT !.cache = <<>>, !.cache_size = value]
    ELSE IF value # -1 /\ Len(S.cache) > value THEN
        LET kept == SubSeq(S.cache, 1, value)
        IN  [S EXCEPT !.cache = kept, !.cache_size = value,
                      !.slices = [k \in 1..Len(S.slices) |->
                                     IF (k - 1) \in Keys(S.cache) \ Keys(kept)
                                     THEN [S.slices[k] EXCEPT !.cache = NoData]
                                     ELSE S.slices[k]]]
    ELSE [S EXCEPT !.cache_size = value]

set_cache_size(S, value) ==
    IF value < -1 THEN Raise(S, "ValueError")
    ELSE IF value = 0 THEN
        IF S.cache_size # 0
        THEN [S EXCEPT !.cache = <<>>, !.cache_size = value,
                       !.slices = [k \in 1..Len(S.slices) |->
                                      [S.slices[k] EXCEPT !.cache = NoData]]]
        ELSE [S EXCEPT !.cache_size = value]
    ELSE IF S.cache_size = 0 THEN [S EXCEPT !.cache = <<>>, !.cache_size = value]
    ELSE IF value # -1 THEN [Shrink(S, value) EXCEPT !.cache_size = value]
    ELSE [S EXCEPT !.cache_size = value]

----------------------------------------------------------------------------
(* FileImageStackHeader, for a format with these declared fields:          *)
(*   dims  NumericField(int, 1, 2, opt=False)   required, writable         *)
(*   fmt   FixedField(int, 1, opt=False)        required, read-only        *)
(*   note  Field(int)                           optional, writable         *)
(*   rev   Field(int, ro=True)                  optional, read-only        *)
(* whose _get_field_name takes "NOTE" for "note", refuses "?" and lets     *)
(* any other name through (a name that is no declared field is a custom    *)
(* field).  A value is <<"int", n>> or <<"str", n>>, the string of n.      *)

Fields == {"dims", "fmt", "note", "rev"}
FieldRo(f) == f \in {"fmt", "rev"}
FieldOpt(f) == f \in {"note", "rev"}
NoField == "<None>"
FieldNames == Fields \cup {"NOTE", "x", "?"}
Values == {<<"int", 1>>, <<"int", 2>>, <<"int", 3>>, <<"str", 2>>}
NoValue == <<"none", 0>>

_get_field_name(f) ==
    CASE f = "NOTE" -> "note"
      [] f = "?" -> NoField
      [] OTHER -> f

\* Field.cast / NumericField.cast / FixedField.cast: the value, or NoValue
\* where the cast raises ValueError
cast(f, v) ==
    LET n == <<"int", v[2]>>
    IN  CASE f = "dims" -> IF n[2] < 1 \/ n[2] > 2 THEN NoValue ELSE n
          [] f = "fmt" -> IF n # <<"int", 1>> THEN NoValue ELSE <<"int", 1>>
          [] OTHER -> n

Put(h, key, v) == [k \in (DOMAIN h) \cup {key} |-> IF k = key THEN v ELSE h[k]]
Drop(h, key) == [k \in (DOMAIN h) \ {key} |-> h[k]]

\* _check over the data handed to the constructor: the data with its names
\* made canonical and its values cast, or <<>> where _check raises.  (The
\* data holds no two names of one field.)
_check(raw) ==
    LET names == {_get_field_name(k) : k \in DOMAIN raw}
        origin(key) == CHOOSE k \in DOMAIN raw : _get_field_name(k) = key
        value(key) == IF key \in Fields THEN cast(key, raw[origin(key)])
                      ELSE raw[origin(key)]
    IN  IF NoField \in names THEN <<>>
        ELSE IF \E f \in Fields : f \notin names /\ ~FieldOpt(f) THEN <<>>
        ELSE IF \E key \in names : value(key) = NoValue THEN <<>>
        ELSE [key \in names |-> value(key)]

\* the header of the stacks whose header is left alone
PlainHeader == _check([k \in {"dims", "fmt"} |-> <<"int", 1>>])

\* A variant that does not look at the read-only flag of the field.
header_setitem_any(S, _key, value) ==
    LET key == _get_field_name(_key)
    IN  IF readonly THEN Raise(S, "AttributeError")
        ELSE IF key = NoField THEN Raise(S, "KeyError")
        ELSE IF key \notin Fields THEN [S EXCEPT !.header = Put(S.header, key, value)]
        ELSE IF cast(key, value) = NoValue THEN Raise(S, "ValueError")
        ELSE [S EXCEPT !.header = Put(S.header, key, cast(key, value))]

header_setitem(S, _key, value) ==
    LET key == _get_field_name(_key)
    IN  IF readonly THEN Raise(S, "AttributeError")
        ELSE IF key = NoField THEN Raise(S, "KeyError")
        ELSE IF key \notin Fields THEN [S EXCEPT !.header = Put(S.header, key, value)]
        ELSE IF FieldRo(key) THEN Raise(S, "AttributeError")
        ELSE IF cast(key, value) = NoValue THEN Raise(S, "ValueError")
        ELSE [S EXCEPT !.header = Put(S.header, key, cast(key, value))]

\* default is a value, or NoValue where the caller gave none
header_setdefault(S, _key, default) ==
    LET key == _get_field_name(_key)
    IN  IF readonly THEN Raise(S, "AttributeError")
        ELSE IF key = NoField THEN Raise(S, "KeyError")
        ELSE IF key \in DOMAIN S.header THEN S
        ELSE IF default = NoValue THEN Raise(S, "KeyError")
        ELSE IF key \notin Fields THEN [S EXCEPT !.header = Put(S.header, key, default)]
        ELSE IF FieldRo(key) THEN Raise(S, "AttributeError")
        ELSE IF cast(key, default) = NoValue THEN Raise(S, "ValueError")
        ELSE [S EXCEPT !.header = Put(S.header, key, cast(key, default))]

\* for k,v in itr: self[k] = v
RECURSIVE SetItems(_, _)
SetItems(S, items) ==
    IF S.err # "ok" \/ items = <<>> THEN S
    ELSE SetItems(header_setitem(S, items[1][1], items[1][2]), Tail(items))

header_update(S, items) ==
    IF readonly THEN Raise(S, "AttributeError")
    ELSE SetItems(S, items)

\* A variant that lets a required field go.
header_delitem_any(S, _key) ==
    LET key == _get_field_name(_key)
    IN  IF readonly THEN Raise(S, "AttributeError")
        ELSE IF key \notin DOMAIN S.header THEN Raise(S, "KeyError")
        ELSE [S EXCEPT !.header = Drop(S.header, key)]

header_delitem(S, _key) ==
    LET key == _get_field_name(_key)
    IN  IF readonly THEN Raise(S, "AttributeError")
        ELSE IF key \notin DOMAIN S.header THEN Raise(S, "KeyError")
        ELSE IF key \in Fields /\ ~FieldOpt(key) THEN Raise(S, "AttributeError")
        ELSE [S EXCEPT !.header = Drop(S.header, key)]

header_pop(S, _key) ==
    LET key == _get_field_name(_key)
    IN  IF readonly THEN Raise(S, "AttributeError")
        ELSE IF key \notin DOMAIN S.header THEN Raise(S, "KeyError")
        ELSE IF key \in Fields /\ ~FieldOpt(key) THEN Raise(S, "AttributeError")
        ELSE [S EXCEPT !.header = Drop(S.header, key)]

header_popitem(S) == Raise(S, "AttributeError")

\* for k in self._data: ... del self._data[k].  The loop walks the dict in
\* an order of its own; required fields are passed over, and the first
\* deletion makes the next step of the walk raise RuntimeError.  The set of
\* the states it can end in.
header_clear(S) ==
    LET removable == {k \in DOMAIN S.header : k \notin Fields \/ FieldOpt(k)}
    IN  IF readonly THEN {Raise(S, "AttributeError")}
        ELSE IF removable = {} THEN {S}
        ELSE {Raise([S EXCEPT !.header = Drop(S.header, k)], "RuntimeError") :
                 k \in removable}

\* FileImageStack.save: the header's own save writes the file and leaves
\* the mapping as it is
save(S) == IF readonly THEN Raise(S, "AttributeError") ELSE S

----------------------------------------------------------------------------
(* FileImageStack.open for a single file.  The registry is the sequence    *)
(* all_subclasses yields; an adapter is [can_read, can_write, mq] with mq  *)
(* what its _openable returns for the file, or ProbeRaises where it raises *)
(* (unknown option keys, unusable option values).                          *)

NotAtAll == 0
Unlikely == 25
Maybe == 50
Likely == 75
Definitely == 100
ProbeRaises == -1
MatchQuality == {NotAtAll, Unlikely, Maybe, Likely, Definitely}

\* A variant that asks no adapter whether it can write.
Eligible_any_reader(a, ro) == a.can_read

\* not (not cls._can_read() or not (readonly or cls._can_write()))
Eligible(a, ro) == a.can_read /\ (ro \/ a.can_write)

\* the loop over the registry from place k on; probed lists the adapters
\* whose _openable was called
RECURSIVE Probing(_, _, _, _)
Probing(registry, ro, k, r) ==
    IF k > Len(registry) THEN r
    ELSE IF ~Eligible(registry[k], ro) THEN Probing(registry, ro, k + 1, r)
    ELSE LET mq == registry[k].mq
             r1 == [r EXCEPT !.probed = Append(r.probed, k)]
             r2 == IF mq > r.highest_mq
                   THEN [r1 EXCEPT !.highest_cls = k, !.highest_mq = mq] ELSE r1
         IN  IF mq = ProbeRaises THEN [r1 EXCEPT !.err = "ProbeError"]
             ELSE IF mq = Definitely THEN r2
             ELSE Probing(registry, ro, k + 1, r2)

\* highest_cls is the place in the registry of the adapter that constructs
\* the stack, 0 for None
open(registry, ro) ==
    LET r == Probing(registry, ro, 1,
                     [err |-> "ok", highest_cls |-> 0, highest_mq |-> NotAtAll,
                      probed |-> <<>>])
    IN  IF r.err # "ok" THEN r
        ELSE IF r.highest_mq = NotAtAll THEN [r EXCEPT !.err = "ValueError"]
        ELSE r

----------------------------------------------------------------------------
(* filters/label.py, the labeling engine.  A 1-D array is [dtype, v] with  *)
(* v the sequence of its elements; the result of a call is [err, out, N]:  *)
(* err is "ok" and out, N what it returns, or err names the exception.     *)

\* the values of the elements and pixels
PixelValues == (-1)..2

Raised(e) == [err |-> e, out |-> <<>>, N |-> 0]
Returned(out, N) == [err |-> "ok", out |-> out, N |-> N]

\* ndarray.sort: the elements in ascending order
RECURSIVE sort(_)
sort(v) ==
    IF v = <<>> THEN <<>>
    ELSE LET i == CHOOSE i \in 1..Len(v) : \A j \in 1..Len(v) : v[i] <= v[j]
         IN  <<v[i]>> \o sort([k \in 1..(Len(v) - 1) |-> IF k < i THEN v[k] ELSE v[k + 1]])

\* ndarray.compress(flag): the elements whose flag is set
RECURSIVE compress(_, _, _)
compress(v, flag, i) ==
    IF i > Len(v) THEN <<>>
    ELSE (IF flag[i] THEN <<v[i]>> ELSE <<>>) \o compress(v, flag, i + 1)

\* __unique_sorted(a), a sorted and not empty: flag[0] = True and
\* flag[1:] = a[1:] != a[:-1]
__unique_sorted(v) ==
    LET flag == [i \in 1..Len(v) |-> i = 1 \/ v[i] # v[i - 1]]
    IN  compress(v, flag, 1)

\* _unique_merge(a, b) where the optimized routines are not loaded.  The
\* last line calls __unique_sorted() without the array it has just built
\* and sorted, which Python refuses with TypeError.
_unique_merge(a, b) ==
    IF a.dtype # b.dtype THEN Raised("ValueError")
    ELSE IF Len(a.v) = 0 THEN Returned(b, 0)
    ELSE IF Len(b.v) = 0 THEN Returned(a, 0)
    ELSE LET merged == sort(a.v \o b.v)
         IN  Raised("TypeError")

(* A 2-D image is a function from its pixels <<r, c>> to their values.     *)
(* have_cython is what _get_cython_funcs() finds and keeps in              *)
(* __have_cython_funcs: whether the optimized routines of ._cython.label   *)
(* could be imported.                                                      *)
Pixels(R, C) == (1..R) \X (1..C)
Rows(a) == Cardinality({p[1] : p \in DOMAIN a})
Cols(a) == Cardinality({p[2] : p \in DOMAIN a})

\* ndarray.flatten: the pixels in row-major order
flatten(a) ==
    [k \in 1..(Rows(a) * Cols(a)) |-> a[<<((k - 1) \div Cols(a)) + 1, ((k - 1) % Cols(a)) + 1>>]]

\* _unique_fast(a): the distinct values of a in ascending order (the
\* optimized unique_fast answers to the same docstring)
_unique_fast(a) ==
    LET v == flatten(a)
    IN  IF Len(v) = 0 THEN v ELSE __unique_sorted(sort(v))

\* ndarray.searchsorted(x), side left, as a 0-based index
searchsorted(vals, x) == Cardinality({i \in 1..Len(vals) : vals[i] < x})

\* the optimized replace(keys, vals, a): every pixel that holds keys[i]
\* becomes vals[i]
_replace(keys, vals, a) ==
    [p \in DOMAIN a |-> vals[CHOOSE i \in 1..Len(keys) : keys[i] = a[p]]]

arange(n) == [i \in 1..n |-> i - 1]

\* _number(a).  vals[k] of the source is vals[k + 1] here.  In the optimized
\* branch concatenate((zero, vals)) is handed the scalar zero, a
\* zero-dimensional array, which numpy refuses with ValueError.
_number_forgets_missing_zero(a, have_cython) ==
    LET vals == _unique_fast(a)
        out  == [p \in DOMAIN a |-> searchsorted(vals, a[p])]
    IN  Returned(out, Len(vals) - 1)

_number(a, have_cython) ==
    LET vals == _unique_fast(a)
        zero == 0
        pos0 == searchsorted(vals, zero)
        zero_absent == pos0 = Len(vals) \/ vals[pos0 + 1] # zero
    IN  IF have_cython
        THEN IF zero_absent THEN Raised("ValueError")
             ELSE LET moved == IF pos0 # 0
                               THEN [i \in 1..Len(vals) |->
                                        IF i = 1 THEN zero
                                        ELSE IF i <= pos0 + 1 THEN vals[i - 1]
                                        ELSE vals[i]]
                               ELSE vals
                  IN  Returned(_replace(moved, arange(Len(moved)), a), Len(moved) - 1)
        ELSE LET out == [p \in DOMAIN a |-> searchsorted(vals, a[p])]
                 N   == Len(vals) - 1
             IN  IF zero_absent
                 THEN Returned([p \in DOMAIN a |-> out[p] + 1], N + 1)
                 ELSE IF pos0 # 0
                 THEN LET up == [p \in DOMAIN a |->
                                    IF out[p] < pos0 THEN out[p] + 1 ELSE out[p]]
                      IN  Returned([p \in DOMAIN a |-> IF a[p] = zero THEN 0 ELSE up[p]], N)
                 ELSE Returned(out, N)

_number2(a, have_cython) == _number(a, have_cython)

\* the optimized renumber: every distinct non-zero value gets one of the
\* numbers 1..N, in no promised order, and zero stays 0
renumber(a) ==
    LET nz == {a[p] : p \in DOMAIN a} \ {0}
        N  == Cardinality(nz)
    IN  {Returned([p \in DOMAIN a |-> IF a[p] = 0 THEN 0 ELSE f[a[p]]], N) :
            f \in {f \in [nz -> 1..N] : \A u, v \in nz : f[u] = f[v] => u = v}}

\* _renumber, _renumber2 and number(im, ordered): the set of what a call
\* can return
_renumber(a, have_cython) ==
    IF have_cython THEN renumber(a) ELSE {_number(a, have_cython)}

_renumber2(a, have_cython) == _renumber(a, have_cython)

number(im, ordered, have_cython) ==
    IF ordered THEN {_number2(im, have_cython)} ELSE _renumber2(im, have_cython)

(* scipy.ndimage.measurements.label(input, structure): the foreground      *)
(* pixels joined into maximal connected components, numbered from 1 in the *)
(* row-major order of their first pixels.  The structure is the default    *)
(* one (None: neighbours above, below, left and right) or the full 3x3     *)
(* one (the diagonal neighbours too).                                      *)
Structures == {"cross", "full"}

Distance(x, y) == IF x < y THEN y - x ELSE x - y

Adjacent(p, q, structure) ==
    IF structure = "cross"
    THEN Distance(p[1], q[1]) + Distance(p[2], q[2]) = 1
    ELSE p # q /\ Distance(p[1], q[1]) <= 1 /\ Distance(p[2], q[2]) <= 1

RECURSIVE Grow(_, _, _)
Grow(S, mask, structure) ==
    LET T == S \cup {q \in mask : \E p \in S : Adjacent(p, q, structure)}
    IN  IF T = S THEN S ELSE Grow(T, mask, structure)

First(mask) ==
    CHOOSE p \in mask : \A q \in mask : p[1] < q[1] \/ (p[1] = q[1] /\ p[2] <= q[2])

RECURSIVE label_from(_, _, _, _)
label_from(rest, structure, n, out) ==
    IF rest = {} THEN [out |-> out, n |-> n]
    ELSE LET c == Grow({First(rest)}, rest, structure)
         IN  label_from(rest \ c, structure, n + 1,
                        [p \in DOMAIN out |-> IF p \in c THEN n + 1 ELSE out[p]])

ndimage_label(input, structure) ==
    label_from({p \in DOMAIN input : input[p]}, structure, 0, [p \in DOMAIN input |-> 0])

\* _label2(a, structure) and label(im, structure)
_label2(a, structure) ==
    LET l == ndimage_label([p \in DOMAIN a |-> a[p] # 0], structure)
    IN  Returned(l.out, l.n)

label(im, structure) == _label2(im, structure)

\* __relabel_core(im, N, structure).  place_from is the loop over j from
\* its j on, for the n components label found in the mask im == i.
RECURSIVE place_from_keeps_N(_, _, _, _, _)
place_from_keeps_N(im, N, lbl, j, n) ==
    IF j > n THEN [im |-> im, N |-> N]
    ELSE place_from_keeps_N([p \in DOMAIN im |-> IF lbl[p] = j THEN N + 1 ELSE im[p]],
                            N, lbl, j + 1, n)

RECURSIVE place_from_first_too(_, _, _, _, _)
place_from_first_too(im, N, lbl, j, n) ==
    IF j > n + 1 THEN [im |-> im, N |-> N]
    ELSE place_from_first_too([p \in DOMAIN im |-> IF lbl[p] = j - 1 THEN N + 1 ELSE im[p]],
                              N + 1, lbl, j + 1, n)

RECURSIVE place_from(_, _, _, _, _)
place_from(im, N, lbl, j, n) ==
    IF j > n THEN [im |-> im, N |-> N]
    ELSE place_from([p \in DOMAIN im |-> IF lbl[p] = j THEN N + 1 ELSE im[p]],
                    N + 1, lbl, j + 1, n)

\* the loop over i from its i to end, the N the call was handed
RECURSIVE relabel_from(_, _, _, _, _)
relabel_from(im, N, structure, i, end) ==
    IF i > end THEN Returned(im, N)
    ELSE LET l == ndimage_label([p \in DOMAIN im |-> im[p] = i], structure)
             s == place_from(im, N, l.out, 2, l.n)
         IN  relabel_from(s.im, s.N, structure, i + 1, end)

__relabel_core(im, N, structure) == relabel_from(im, N, structure, 1, N)

\* _relabel2(im, structure) and relabel(im, structure), where the optimized
\* routines are not loaded
_relabel2(im, structure) ==
    LET r == _number2(im, FALSE)
    IN  IF r.err # "ok" THEN r ELSE __relabel_core(r.out, r.N, structure)

relabel(im, structure) == _relabel2(im, structure)

(* shrink_integer.  An element type is [kind, itemsize] with kind "i", "u" *)
(* or "f" and itemsize in bytes; NoType is min_dt = None.  A byte has      *)
(* ByteBits bits (8 in numpy) so that the widest type stays within the     *)
(* integers that can be computed with.  A typed image is [dtype, v].       *)
ItemSizes == <<1, 2, 4, 8>>
sctypes(kind) == [k \in 1..Len(ItemSizes) |-> [kind |-> kind, itemsize |-> ItemSizes[k]]]
IntTypes == {sctypes(kind)[k] : kind \in {"i", "u"}, k \in 1..Len(ItemSizes)}
float32 == [kind |-> "f", itemsize |-> 4]
NoType == [kind |-> "none", itemsize |-> 0]

RECURSIVE Pow2(_)
Pow2(n) == IF n = 0 THEN 1 ELSE 2 * Pow2(n - 1)

\* types.get_dtype_max, types.get_dtype_min of an integer type
get_dtype_max(dt) ==
    IF dt.kind = "u" THEN Pow2(ByteBits * dt.itemsize) - 1
    ELSE Pow2(ByteBits * dt.itemsize - 1) - 1
get_dtype_min(dt) ==
    IF dt.kind = "u" THEN 0 ELSE -Pow2(ByteBits * dt.itemsize - 1)

\* ndarray.astype to an integer type: the value modulo 2^bits, taken into
\* the range of the type
astype_value(x, dt) ==
    LET m == Pow2(ByteBits * dt.itemsize)
        r == x % m
    IN  IF dt.kind = "i" /\ r > get_dtype_max(dt) THEN r - m ELSE r
astype(im, dt) == [dtype |-> dt, v |-> [p \in DOMAIN im.v |-> astype_value(im.v[p], dt)]]

im_min(im) == CHOOSE x \in {im.v[p] : p \in DOMAIN im.v} : \A p \in DOMAIN im.v : x <= im.v[p]
im_max(im) == CHOOSE x \in {im.v[p] : p \in DOMAIN im.v} : \A p \in DOMAIN im.v : x >= im.v[p]

\* min(types, key=f): the first of the types whose key is the least
min_by_key(types, key) ==
    types[CHOOSE k \in 1..Len(types) :
             /\ \A j \in 1..Len(types) : key[k] <= key[j]
             /\ \A j \in 1..(k - 1) : key[j] > key[k]]

\* _shrink_int_dtype_raw(mn, mx, min_dt); f[k] is f(dt) of the k-th type
_shrink_int_dtype_raw_ignores_min(mn, mx, min_dt) ==
    LET types == sctypes(IF min_dt.kind = "u" THEN "u" ELSE "i")
        f == [k \in 1..Len(types) |->
                 IF get_dtype_max(types[k]) >= mx THEN types[k].itemsize ELSE 1000]
        dt == min_by_key(types, f)
    IN  IF min_dt.kind \notin {"u", "i"} \/ \A k \in 1..Len(types) : f[k] = 1000
        THEN Raised("ValueError")
        ELSE Returned(dt, 0)

_shrink_int_dtype_raw(mn, mx, min_dt) ==
    IF min_dt.kind = "u"
    THEN IF mn < 0 THEN Raised("ValueError")
         ELSE LET types == sctypes("u")
                  f == [k \in 1..Len(types) |->
                           IF get_dtype_max(types[k]) >= mx THEN types[k].itemsize ELSE 1000]
                  dt == min_by_key(types, f)
              IN  IF \A k \in 1..Len(types) : f[k] = 1000
                  THEN Raised("ValueError") ELSE Returned(dt, 0)
    ELSE IF min_dt.kind = "i"
    THEN LET types == sctypes("i")
             f == [k \in 1..Len(types) |->
                      IF get_dtype_max(types[k]) >= mx /\ get_dtype_min(types[k]) <= mn
                      THEN types[k].itemsize ELSE 1000]
             dt == min_by_key(types, f)
         IN  IF \A k \in 1..Len(types) : f[k] = 1000
             THEN Raised("ValueError") ELSE Returned(dt, 0)
    ELSE Raised("ValueError")

\* _shrink_int_dtype(im, min_dt) and shrink_integer(im, min_dt)
_shrink_int_dtype(im, min_dt) ==
    IF im.dtype.kind \notin {"i", "u"} THEN Raised("ValueError")
    ELSE LET unsigned == im.dtype.kind = "u"
             min_dt_  == IF min_dt = NoType
                         THEN [kind |-> IF unsigned THEN "u" ELSE "i", itemsize |-> 1]
                         ELSE min_dt
             mn == IF unsigned THEN 0 ELSE im_min(im)
             mx == im_max(im)
         IN  _shrink_int_dtype_raw(mn, mx, min_dt_)

shrink_integer(im, min_dt) ==
    LET dt == _shrink_int_dtype(im, min_dt)
    IN  IF dt.err # "ok" THEN dt ELSE Returned(astype(im, dt.out), 0)

\* ShrinkIntegerImageStack._calc_dtype, the loop
\*   slices = iter(self._slices); slc = next(slices); ...
\*   for slc,unsigned in zip(slices,kinds): ...
\* slices has given its first slice when zip starts and kinds has not, so
\* the k-th slice (k >= 2) comes with kinds[k - 1], the kind of the slice
\* before it.
RECURSIVE stack_min_max(_, _, _, _, _)
stack_min_max(ims, kinds, k, mn, mx) ==
    IF k > Len(ims) THEN <<mn, mx>>
    ELSE LET unsigned == kinds[k - 1]
         IN  stack_min_max(ims, kinds, k + 1,
                           Min(IF unsigned THEN 0 ELSE im_min(ims[k]), mn),
                           Max(im_max(ims[k]), mx))

_calc_dtype(ims, min_dt) ==
    IF Len(ims) = 0
    THEN Returned(IF min_dt = NoType THEN [kind |-> "u", itemsize |-> 1] ELSE min_dt, 0)
    ELSE IF \E k \in 1..Len(ims) : ims[k].dtype.kind \notin {"i", "u"}
    THEN Raised("ValueError")
    ELSE LET kinds == [k \in 1..Len(ims) |-> ims[k].dtype.kind = "u"]
             mm == stack_min_max(ims, kinds, 2,
                                 IF kinds[1] THEN 0 ELSE im_min(ims[1]), im_max(ims[1]))
             mn == mm[1]
             mx == mm[2]
             min_dt_ == IF min_dt # NoType THEN min_dt
                        ELSE IF mn >= 0 /\ \E k \in 1..Len(ims) : kinds[k]
                        THEN [kind |-> "u", itemsize |-> 1]
                        ELSE [kind |-> "i", itemsize |-> 1]
         IN  _shrink_int_dtype_raw(mn, mx, min_dt_)

\* ShrinkIntegerImageStack(ims, min_dt, per_slice=False) and the data of all
\* its slices (ShrinkIntegerImageSlice._get_data): what the reads return,
\* or the exception the constructor or the first read raises
ShrinkIntegerImageStack(ims, min_dt) ==
    IF min_dt # NoType /\ min_dt.kind \notin {"i", "u"} THEN Raised("ValueError")
    ELSE LET dt == _calc_dtype(ims, min_dt)
         IN  IF dt.err # "ok" THEN dt
             ELSE Returned([k \in 1..Len(ims) |-> astype(ims[k], dt.out)], 0)

----------------------------------------------------------------------------
(* ConsecutivelyNumberImageStack: a stack of label images numbered slice by *)
(* slice or as a whole.  The object is the record in numbering:            *)
(*   strategy     which slice class __init__ chose: "per_slice"            *)
(*                (ConsecutivelyNumberImagePerSlice), "renumber"           *)
(*                (ConsecutivelyRenumberImageSlice, _calc_values = None)   *)
(*                or "values" (ConsecutivelyNumberImageSlice,              *)
(*                _calc_renumber = None)                                   *)
(*   ims          the slices of the input stack, each [dtype, v]           *)
(*   n_labels     _n_labels, -1 while the attribute is not set             *)
(*   calc_im      what self._calc_im is bound to                           *)
(*   vals, pos0   _vals (set together with _n_labels) and _pos0            *)
(*   renumbered   the slices' _renumbered, <<>> while not set              *)
(*   outs, seen   history: what the read of each slice last returned       *)
(*   computed     history: how often _calc_values or _calc_renumber ran    *)
(* has_props says whether the input stack has the properties               *)
(* is_dtype_homogeneous and is_shape_homogeneous that __init__ reads       *)
(* (ImageStack itself has only is_homogeneous); has_data says whether its  *)
(* slices have the attribute _data that _calc_values reads (ImageSlice     *)
(* itself sets only _stack, _z and _cache).                                *)

is_dtype_homogeneous(ims) == \A k \in 1..Len(ims) : ims[k].dtype = ims[1].dtype
is_shape_homogeneous(ims) == \A k \in 1..Len(ims) : DOMAIN ims[k].v = DOMAIN ims[1].v

\* ConsecutivelyNumberImageStack(ims, ordered, per_slice)
ConsecutivelyNumberImageStack(ims, ordered, per_slice, have_cython, has_props, has_data) ==
    LET o == [NoNumbering EXCEPT !.ims = ims, !.ordered = ordered,
                                 !.have_cython = have_cython, !.has_data = has_data,
                                 !.outs = [k \in 1..Len(ims) |-> ims[k].v]]
    IN  IF per_slice THEN [obj |-> [o EXCEPT !.strategy = "per_slice"], err |-> "ok"]
        ELSE IF ~has_props THEN [obj |-> NoNumbering, err |-> "AttributeError"]
        ELSE IF ~is_dtype_homogeneous(ims) THEN [obj |-> NoNumbering, err |-> "ValueError"]
        ELSE IF ordered /\ is_shape_homogeneous(ims)
        THEN [obj |-> [o EXCEPT !.strategy = "renumber"], err |-> "ok"]
        ELSE [obj |-> [o EXCEPT !.strategy = "values"], err |-> "ok"]

\* the optimized unique_merge(a, b): the sorted union of two sorted, unique
\* arrays
unique_merge(a, b) ==
    IF Len(a.v) + Len(b.v) = 0 THEN Returned(a, 0)
    ELSE Returned([dtype |-> a.dtype, v |-> __unique_sorted(sort(a.v \o b.v))], 0)

\* for slc in slices: vals = _unique_merge(vals, _unique_fast(slc._input._data))
RECURSIVE merge_slices(_, _, _)
merge_slices(o, vals, k) ==
    IF k > Len(o.ims) THEN Returned(vals, 0)
    ELSE IF ~o.has_data THEN Raised("AttributeError")
    ELSE LET u == [dtype |-> o.ims[k].dtype, v |-> _unique_fast(o.ims[k].v)]
             merged == IF o.have_cython THEN unique_merge(vals, u) ELSE _unique_merge(vals, u)
         IN  IF merged.err # "ok" THEN merged ELSE merge_slices(o, merged.out, k + 1)

\* _calc_values(): the sorted, unique values of the whole stack.  It rebinds
\* self._calc_im before it builds the table, and in the optimized branch
\* concatenate((zero, vals)) is handed the scalar zero as in _number.
_calc_values(o) ==
    LET o1 == [o EXCEPT !.computed = @ + 1]
    IN  IF Len(o.ims) = 0
        THEN [obj |-> [o1 EXCEPT !.calc_im = "_calc_im_none", !.n_labels = 0], err |-> "ok"]
        ELSE LET first == [dtype |-> o.ims[1].dtype, v |-> _unique_fast(o.ims[1].v)]
                 merged == merge_slices(o, first, 2)
             IN  IF merged.err # "ok" THEN [obj |-> o1, err |-> merged.err]
                 ELSE LET vals == merged.out.v
                          zero == 0
                          pos0 == searchsorted(vals, zero)
                          zero_absent == pos0 = Len(vals) \/ vals[pos0 + 1] # zero
                      IN  IF o.have_cython
                          THEN LET o2 == [o1 EXCEPT !.calc_im = "_calc_im_replace_single"]
                                   moved == IF pos0 # 0
                                            THEN [i \in 1..Len(vals) |->
                                                     IF i = 1 THEN zero
                                                     ELSE IF i <= pos0 + 1 THEN vals[i - 1]
                                                     ELSE vals[i]]
                                            ELSE vals
                               IN  IF zero_absent THEN [obj |-> o2, err |-> "ValueError"]
                                   ELSE [obj |-> [o2 EXCEPT !.vals = moved,
                                                            !.n_labels = Len(moved) - 1],
                                         err |-> "ok"]
                          ELSE LET p0 == IF zero_absent THEN -1 ELSE pos0
                               IN  [obj |-> [o1 EXCEPT !.calc_im = "_calc_im_searchsorted_single",
                                                       !.vals = vals, !.pos0 = p0,
                                                       !.n_labels = Len(vals) -
                                                           (IF p0 = -1 THEN 0 ELSE 1)],
                                    err |-> "ok"]

\* _calc_im_replace_single(im): replace(self._vals, self._idxs, im)
_calc_im_replace_single(o, im) ==
    IF o.n_labels = -1 THEN Raised("AttributeError")
    ELSE Returned(_replace(o.vals, arange(Len(o.vals)), im), 0)

_calc_im_searchsorted_single(o, im) ==
    LET out == [p \in DOMAIN im |-> searchsorted(o.vals, im[p])]
    IN  IF o.pos0 = -1 THEN Returned([p \in DOMAIN im |-> out[p] + 1], 0)
        ELSE IF o.pos0 # 0
        THEN LET up == [p \in DOMAIN im |-> IF out[p] < o.pos0 THEN out[p] + 1 ELSE out[p]]
             IN  Returned([p \in DOMAIN im |-> IF im[p] = 0 THEN 0 ELSE up[p]], 0)
        ELSE Returned(out, 0)

\* what self._calc_im(im) runs once _calc_values has rebound it
calc_im_bound(o, im) ==
    IF o.calc_im = "_calc_im_replace_single" THEN _calc_im_replace_single(o, im)
    ELSE IF o.calc_im = "_calc_im_searchsorted_single" THEN _calc_im_searchsorted_single(o, im)
    ELSE Returned(<<>>, 0)

\* self._stack._calc_im(im): the method of the class calls _calc_values and
\* then the version that replaced it
_calc_im(o, im) ==
    IF o.calc_im = "_calc_im"
    THEN LET c == _calc_values(o)
         IN  IF c.err # "ok" THEN [obj |-> c.obj, res |-> Raised(c.err)]
             ELSE [obj |-> c.obj, res |-> calc_im_bound(c.obj, im)]
    ELSE [obj |-> o, res |-> calc_im_bound(o, im)]

\* ImageStack.stack of the input: the slices one above the other (the 3-D
\* array in the order ravel reads it), and slice k of such an array
stack(ims) ==
    LET R == IF Len(ims) = 0 THEN 0 ELSE Rows(ims[1].v)
        C == IF Len(ims) = 0 THEN 0 ELSE Cols(ims[1].v)
    IN  [p \in Pixels(Len(ims) * R, C) |->
            ims[((p[1] - 1) \div R) + 1].v[<<((p[1] - 1) % R) + 1, p[2]>>]]
slice_of(a, k, like) ==
    [p \in DOMAIN like |-> a[<<(k - 1) * Rows(like) + p[1], p[2]>>]]

_renumber3(a, have_cython) == _renumber(a, have_cython)

\* _calc_renumber(): every way the call can end
_calc_renumber(o) ==
    {[o EXCEPT !.computed = @ + 1, !.n_labels = r.N,
               !.renumbered = [k \in 1..Len(o.ims) |-> slice_of(r.out, k, o.ims[k].v)]] :
        r \in _renumber3(stack(o.ims), o.have_cython)}

\* the property n_labels.  With per_slice both _calc_values and
\* _calc_renumber are None, and calling None is a TypeError.
n_labels(o) ==
    IF o.n_labels # -1 THEN {[obj |-> o, res |-> Returned(<<>>, o.n_labels)]}
    ELSE IF o.strategy = "per_slice" THEN {[obj |-> o, res |-> Raised("TypeError")]}
    ELSE IF o.strategy = "renumber"
    THEN {[obj |-> c, res |-> Returned(<<>>, c.n_labels)] : c \in _calc_renumber(o)}
    ELSE LET c == _calc_values(o)
         IN  {[obj |-> c.obj,
               res |-> IF c.err = "ok" THEN Returned(<<>>, c.obj.n_labels) ELSE Raised(c.err)]}

\* _get_data of slice k (1-based) in each of the three slice classes
_get_data(o, k) ==
    IF o.strategy = "per_slice"
    THEN {[obj |-> o, res |-> r] : r \in number(o.ims[k].v, o.ordered, o.have_cython)}
    ELSE IF o.strategy = "values" THEN {_calc_im(o, o.ims[k].v)}
    ELSE IF o.renumbered # <<>> THEN {[obj |-> o, res |-> Returned(o.renumbered[k], 0)]}
    ELSE {[obj |-> c, res |-> Returned(c.renumbered[k], 0)] : c \in _calc_renumber(o)}

\* slice.data of the numbered stack, whose cache is off as __init__ leaves it
numbered_data(o, k) ==
    {[obj |-> IF c.res.err = "ok"
              THEN [c.obj EXCEPT !.outs[k] = c.res.out, !.seen = @ \cup {k}]
              ELSE c.obj,
      res |-> c.res] : c \in _get_data(o, k)}

----------------------------------------------------------------------------
(* The inputs of the operations *)

\* the 1-D arrays _unique_merge is handed: sorted, no value twice
DTypes == {"int8", "int16"}
SortedUnique ==
    [dtype : DTypes,
     v : {v \in UNION {[1..n -> PixelValues] : n \in 0..MaxLen} :
             \A i \in 1..(Len(v) - 1) : v[i] < v[i + 1]}]
\* the images a caller hands to number, label and relabel
Arrays == UNION {[Pixels(R, C) -> PixelValues] : R \in 1..MaxRows, C \in 1..MaxCols}
\* the typed images shrink_integer is handed: one row of up to MaxPixels
\* pixels, their values at and next to the ends of the ranges of the types
EdgeValues ==
    {-1, 0, 1} \cup UNION {{get_dtype_min(dt) - 1, get_dtype_min(dt), get_dtype_max(dt),
                            get_dtype_max(dt) + 1} : dt \in IntTypes}
ValuesOf(dt) ==
    IF dt.kind = "f" THEN {-1, 0, 1}
    ELSE {x \in EdgeValues : get_dtype_min(dt) <= x /\ x <= get_dtype_max(dt)}
TypedImages ==
    UNION {[dtype : {dt}, v : UNION {[Pixels(1, C) -> ValuesOf(dt)] : C \in 1..MaxPixels}] :
              dt \in IntTypes \cup {float32}}
MinTypes == IntTypes \cup {float32, NoType}
\* the stacks a ShrinkIntegerImageStack is built over: up to MaxSlices
\* slices of one pixel, of the types of one and two bytes and float32
ShrinkImages ==
    {im \in TypedImages : Cols(im.v) = 1 /\ im.dtype.itemsize \in {1, 2, 4} /\
                          (im.dtype.itemsize = 4 => im.dtype.kind = "f")}
ShrinkStacks == UNION {[1..n -> ShrinkImages] : n \in 0..MaxSlices}
\* the stacks a ConsecutivelyNumberImageStack is built over: up to MaxSlices
\* slices of one or two pixels, and the stack of three 2x2 slices
\* [[0,1],[0,0]], [[2,2],[0,0]], [[0,0],[0,0]]
LabelImages ==
    [dtype : {sctypes("i")[1]},
     v : [Pixels(1, 1) -> PixelValues] \cup [Pixels(1, 2) -> 0..2]]
    \cup {[dtype |-> sctypes("i")[2], v |-> [p \in Pixels(1, 1) |-> 1]]}
ExampleStack ==
    [k \in 1..3 |->
        [dtype |-> sctypes("i")[1],
         v |-> [p \in Pixels(2, 2) |->
                   IF k = 1 /\ p = <<1, 2>> THEN 1
                   ELSE IF k = 2 /\ p[1] = 1 THEN 2 ELSE 0]]]
LabelStacks == UNION {[1..n -> LabelImages] : n \in 0..MaxSlices} \cup {ExampleStack}
ImSeqs == UNION {[1..n -> pool] : n \in 0..MaxIms}
\* start is given, stop is given or None (<<>>)
SliceIdx(n) == [start : {<<v>> : v \in 0..n},
                stop : {<<>>} \cup {<<v>> : v \in 0..n},
                step : {1, -1, 2, -2}]
\* every index from 0 to one past the end, and two negative ones
IntIdx(n) == {-(n + 1), -1} \cup 0..(n + 1)
IdxSeqs(n) == UNION {[1..k -> (-1)..n] : k \in 0..MaxIms}
CacheSizes == (-1)..MaxCache
\* what update is handed: a list of (name, value) pairs
ItemSeqs == UNION {[1..n -> FieldNames \X Values] : n \in 0..MaxItems}
\* the data a constructor can be handed: values for some names, no two of
\* them names of one field
Adapters == [can_read : BOOLEAN, can_write : BOOLEAN,
             mq : MatchQuality \cup {ProbeRaises}]
Registries == UNION {[1..n -> Adapters] : n \in 0..MaxAdapters}
RawHeaders ==
    UNION {[K -> Values] : K \in {K \in SUBSET FieldNames : ~({"note", "NOTE"} \subseteq K)}}

----------------------------------------------------------------------------
(* The state after construction: FileImageStack.__init__ over the slices   *)
(* the format found in the file, each built with its position as z.        *)

Opened(P) ==
    /\ pool = P
    /\ readonly = FALSE
    /\ header = PlainHeader
    /\ \E n \in 0..MaxDepth : \E ims \in [1..n -> {im \in P : Acceptable(im)}] :
          slices = [k \in 1..n |-> [z |-> k - 1, im |-> ims[k], cache |-> NoData, writeable |-> FALSE]]
    /\ d = Len(slices)
    /\ cache_size = 0
    /\ cache = <<>>
    /\ homogeneous = IF d <= 1 THEN Both ELSE Unknown
    /\ last = Idle
    /\ pre = NoPre
    /\ recent = NoHistory
    /\ numbering = NoNumbering

OpenedReadonly(P) ==
    /\ pool = P
    /\ readonly = TRUE
    /\ header = PlainHeader
    /\ \E n \in 0..MaxDepth : \E ims \in [1..n -> {im \in P : Acceptable(im)}] :
          slices = [k \in 1..n |-> [z |-> k - 1, im |-> ims[k], cache |-> NoData, writeable |-> FALSE]]
    /\ d = Len(slices)
    /\ cache_size = 0
    /\ cache = <<>>
    /\ homogeneous = IF d <= 1 THEN Both ELSE Unknown
    /\ last = Idle
    /\ pre = NoPre
    /\ recent = NoHistory
    /\ numbering = NoNumbering

Init == Opened(Images) \/ OpenedReadonly(Images)

\* A call of op ended with the stack in state S (S.err says how it ended).
Becomes(S, op, a, ims) ==
    /\ last = Idle
    /\ \E T \in {S} :
          /\ Len(T.slices) <= MaxDepth
          /\ slices' = T.slices
          /\ d' = T.d
          /\ cache_size' = T.cache_size
          /\ cache' = T.cache
          /\ homogeneous' = T.hom
          /\ header' = T.header
          /\ last' = [op |-> op, res |-> T.err, a |-> a, ims |-> ims]
    /\ pre' = St
    /\ UNCHANGED <<readonly, pool, numbering>>

\* The caller goes on to its next call.  A call that reached the format
\* outside its contract is where the behaviour ends.
Return ==
    /\ last # Idle
    /\ last.res # "OutOfContract"
    /\ last' = Idle
    /\ pre' = NoPre
    /\ UNCHANGED <<slices, d, cache_size, cache, homogeneous, readonly, header, pool,
                   recent, numbering>>

\* A variant without the test of _readonly.
Writable_unchecked(S) == S

\* if self._readonly: raise Exception('readonly')
Writable(S) == IF readonly THEN Raise(St, "readonly") ELSE S

Touch(i) == IF recent = NoHistory THEN recent ELSE Append(Without(recent, i), i)

----------------------------------------------------------------------------
(* One action per public operation *)

\* stack[i].data
Read ==
    \E i \in 0..(Len(slices) - 1) :
        /\ Becomes(data(St, i), "read", <<i>>, <<>>)
        /\ recent' = Touch(i)

\* stack[i].data over any format
ReadWith ==
    \E i \in 0..(Len(slices) - 1) : \E got \in GetDataOutcomes :
        /\ Becomes(data_with(St, i, got), "read", <<i, got>>, <<>>)
        /\ recent' = Touch(i)

\* stack[i].data = im, the data setter of the slice itself
Write ==
    \E i \in 0..(Len(slices) - 1) : \E im \in pool :
        /\ Becomes(set_data(St, i, im), "write", <<i>>, <<im>>)
        /\ recent' = Touch(i)

\* stack[idx] = im
SetInt ==
    \E idx \in IntIdx(d) : \E im \in pool :
        /\ Becomes(Writable(set_int(St, idx, im)), "set_int", <<idx>>, <<im>>)
        /\ UNCHANGED recent

\* stack[start:stop:step] = ims
SetSlice ==
    \E sl \in SliceIdx(d) : \E ims \in ImSeqs :
        /\ Becomes(Writable(set_slice(St, sl, ims)), "set_slice", sl, ims)
        /\ UNCHANGED recent

\* stack[[i, j, ...]] = ims
SetIter ==
    \E idx \in IdxSeqs(d) : \E ims \in ImSeqs :
        /\ Becomes(Writable(set_iter(St, idx, ims)), "set_iter", idx, ims)
        /\ UNCHANGED recent

Append_ ==
    \E im \in pool :
        /\ Becomes(Writable(append(St, im)), "append", <<>>, <<im>>)
        /\ UNCHANGED recent

Extend ==
    \E ims \in ImSeqs :
        /\ Becomes(Writable(extend(St, ims)), "extend", <<>>, ims)
        /\ UNCHANGED recent

Insert ==
    \E i \in IntIdx(d) : \E im \in pool :
        /\ Becomes(Writable(insert(St, i, im)), "insert", <<i>>, <<im>>)
        /\ UNCHANGED recent

\* del stack[idx]
DelInt ==
    \E idx \in IntIdx(d) :
        /\ Becomes(Writable(del_int(St, idx)), "del_int", <<idx>>, <<>>)
        /\ UNCHANGED recent

\* del stack[start:stop:step]
DelSlice ==
    \E sl \in SliceIdx(d) :
        /\ Becomes(Writable(del_slice(St, sl)), "del_slice", sl, <<>>)
        /\ UNCHANGED recent

\* del stack[[i, j, ...]]
DelIter ==
    \E idx \in IdxSeqs(d) :
        /\ Becomes(Writable(del_iter(St, idx)), "del_iter", idx, <<>>)
        /\ UNCHANGED recent

Shorten ==
    \E count \in 0..(d + 1) :
        /\ Becomes(Writable(shorten(St, count)), "shorten", <<count>>, <<>>)
        /\ UNCHANGED recent

Clear ==
    /\ Becomes(Writable(clear(St)), "clear", <<>>, <<>>)
    /\ UNCHANGED recent

\* stack.cache_size = value
SetCacheSize ==
    \E value \in CacheSizes :
        /\ Becomes(set_cache_size(St, value), "cache_size", <<value>>, <<>>)
        /\ UNCHANGED recent

\* stack.is_homogeneous, .shape, .dtype, str(stack)
QueryHomogeneous ==
    /\ Becomes(_get_homogeneous_info(St), "homogeneous", <<>>, <<>>)
    /\ UNCHANGED recent

\* stack.save()
Save ==
    /\ Becomes(save(St), "save", <<>>, <<>>)
    /\ UNCHANGED recent

\* stack.header[key] = value
HSetItem ==
    \E key \in FieldNames : \E value \in Values :
        /\ Becomes(header_setitem(St, key, value), "header_setitem", <<key, value>>, <<>>)
        /\ UNCHANGED recent

\* stack.header.setdefault(key[, default])
HSetDefault ==
    \E key \in FieldNames : \E default \in Values \cup {NoValue} :
        /\ Becomes(header_setdefault(St, key, default), "header_setdefault",
                   <<key, default>>, <<>>)
        /\ UNCHANGED recent

\* stack.header.update(items)
HUpdate ==
    \E items \in ItemSeqs :
        /\ Becomes(header_update(St, items), "header_update", items, <<>>)
        /\ UNCHANGED recent

\* del stack.header[key]
HDelItem ==
    \E key \in FieldNames :
        /\ Becomes(header_delitem(St, key), "header_delitem", <<key>>, <<>>)
        /\ UNCHANGED recent

\* stack.header.pop(key)
HPop ==
    \E key \in FieldNames :
        /\ Becomes(header_pop(St, key), "header_pop", <<key>>, <<>>)
        /\ UNCHANGED recent

\* stack.header.popitem()
HPopItem ==
    /\ Becomes(header_popitem(St), "header_popitem", <<>>, <<>>)
    /\ UNCHANGED recent

\* stack.header.clear()
HClear ==
    \E T \in header_clear(St) :
        /\ Becomes(T, "header_clear", <<>>, <<>>)
        /\ UNCHANGED recent

\* FileImageStack.open(filename, readonly): the call and what it came to;
\* the stack an adapter then constructs is read-only as asked
Open ==
    /\ last = Idle
    /\ pre = NoPre
    /\ \E registry \in Registries : \E ro \in BOOLEAN :
          /\ last' = [op |-> "open", res |-> open(registry, ro),
                      a |-> <<registry, ro>>, ims |-> <<>>]
          /\ readonly' = ro
    /\ UNCHANGED <<slices, d, cache_size, cache, homogeneous, header, pool, pre, recent,
                   numbering>>

\* the labeling engine keeps no state of its own: a call is its arguments
\* and what it returns or raises
Called(op, a, res) ==
    /\ last' = [op |-> op, res |-> res, a |-> a, ims |-> <<>>]
    /\ UNCHANGED <<slices, d, cache_size, cache, homogeneous, readonly, header, pool,
                   pre, recent, numbering>>

Merge ==
    /\ last = Idle
    /\ pre = NoPre
    /\ \E a \in SortedUnique : \E b \in SortedUnique :
          Called("merge", <<a, b>>, _unique_merge(a, b))
Number ==
    /\ last = Idle
    /\ pre = NoPre
    /\ \E im \in Arrays : \E ordered \in BOOLEAN : \E have_cython \in BOOLEAN :
          \E r \in number(im, ordered, have_cython) :
              Called("number", <<im, ordered, have_cython>>, r)
Label ==
    /\ last = Idle
    /\ pre = NoPre
    /\ \E im \in Arrays : \E structure \in Structures :
          Called("label", <<im, structure>>, label(im, structure))

\* relabel of an image a caller has, or of what label has just returned;
\* the third argument records the call the image comes from
Relabel ==
    /\ pre = NoPre
    /\ \/ /\ last = Idle
          /\ \E im \in Arrays : \E structure \in Structures :
                Called("relabel", <<im, structure, last>>, relabel(im, structure))
       \/ /\ last.op = "label"
          /\ \E structure \in Structures :
                Called("relabel", <<last.res.out, structure, last>>,
                       relabel(last.res.out, structure))
ShrinkInteger ==
    /\ last = Idle
    /\ pre = NoPre
    /\ \E im \in TypedImages : \E min_dt \in MinTypes :
          Called("shrink_integer", <<im, min_dt>>, shrink_integer(im, min_dt))

ShrinkStack ==
    /\ last = Idle
    /\ pre = NoPre
    /\ \E ims \in ShrinkStacks : \E min_dt \in MinTypes :
          Called("ShrinkIntegerImageStack", <<ims, min_dt>>,
                 ShrinkIntegerImageStack(ims, min_dt))

\* ConsecutivelyNumberImageStack(ims, ordered, per_slice), then the reads of
\* its slices and the queries of n_labels in any order
Construct ==
    /\ last = Idle
    /\ pre = NoPre
    /\ numbering = NoNumbering
    /\ \E ims \in LabelStacks : \E ordered, per_slice, have_cython, has_props, has_data \in BOOLEAN :
          LET c == ConsecutivelyNumberImageStack(ims, ordered, per_slice, have_cython,
                                                 has_props, has_data)
          IN  /\ numbering' = c.obj
              /\ last' = [op |-> "ConsecutivelyNumberImageStack",
                          res |-> IF c.err = "ok" THEN Returned(<<>>, 0) ELSE Raised(c.err),
                          a |-> <<ims, ordered, per_slice, have_cython, has_props, has_data>>,
                          ims |-> <<>>]
    /\ UNCHANGED <<slices, d, cache_size, cache, homogeneous, readonly, header, pool,
                   pre, recent>>

ReadNumbered ==
    /\ numbering.strategy # "none"
    /\ numbering.computed < MaxComputed
    /\ \E k \in 1..Len(numbering.ims) : \E c \in numbered_data(numbering, k) :
          /\ numbering' = c.obj
          /\ last' = [op |-> "numbered_read", res |-> c.res, a |-> <<k>>, ims |-> <<>>]
    /\ UNCHANGED <<slices, d, cache_size, cache, homogeneous, readonly, header, pool,
                   pre, recent>>

QueryNLabels ==
    /\ numbering.strategy # "none"
    /\ numbering.computed < MaxComputed
    /\ \E c \in n_labels(numbering) :
          /\ numbering' = c.obj
          /\ last' = [op |-> "n_labels", res |-> c.res, a |-> <<>>, ims |-> <<>>]
    /\ UNCHANGED <<slices, d, cache_size, cache, homogeneous, readonly, header, pool,
                   pre, recent>>

Next ==
    \/ Read
    \/ ReadWith
    \/ Write
    \/ SetInt
    \/ SetSlice
    \/ SetIter
    \/ Append_
    \/ Extend
    \/ Insert
    \/ DelInt
    \/ DelSlice
    \/ DelIter
    \/ Shorten
    \/ Clear
    \/ SetCacheSize
    \/ QueryHomogeneous
    \/ Save
    \/ HSetItem
    \/ HSetDefault
    \/ HUpdate
    \/ HDelItem
    \/ HPop
    \/ HPopItem
    \/ HClear
    \/ Open
    \/ Merge
    \/ Number
    \/ Label
    \/ Relabel
    \/ ShrinkInteger
    \/ ShrinkStack
    \/ Construct
    \/ ReadNumbered
    \/ QueryNLabels
    \/ Return


Spec == Init /\ [][Next]_vars

----------------------------------------------------------------------------
(* Specifications of parts of the engine, over a writable stack *)

\* reads and single writes under a cache bound set once, with the history
\* of the indices they touch
InitLRU ==
    /\ pool = {"A", "B"}
    /\ readonly = FALSE
    /\ header = PlainHeader
    /\ \E n \in 0..MaxDepth : \E ims \in [1..n -> pool] :
          slices = [k \in 1..n |-> [z |-> k - 1, im |-> ims[k], cache |-> NoData, writeable |-> FALSE]]
    /\ d = Len(slices)
    /\ cache_size \in 1..MaxCache
    /\ cache = <<>>
    /\ homogeneous = IF d <= 1 THEN Both ELSE Unknown
    /\ last = Idle
    /\ pre = NoPre
    /\ recent = <<>>
    /\ numbering = NoNumbering
NextLRU == Read \/ Write \/ QueryHomogeneous \/ Return
SpecLRU == InitLRU /\ [][NextLRU]_vars

\* the cache: reads, single writes, cache_size changes
NextCache == Read \/ Write \/ SetInt \/ SetCacheSize \/ QueryHomogeneous \/ Return
SpecCache == Opened({"A", "B", "C"}) /\ [][NextCache]_vars

\* deletion, with a cache that reads fill
NextDelete ==
    \/ Read \/ SetCacheSize \/ DelInt \/ DelSlice \/ DelIter \/ Shorten \/ Clear
    \/ Return
SpecDelete == Opened({"A", "B"}) /\ [][NextDelete]_vars

\* set with every index form
NextSet == SetInt \/ SetSlice \/ SetIter \/ QueryHomogeneous \/ Return
SpecSet == Opened({"A", "B", "R"}) /\ [][NextSet]_vars

\* set over ranges, on a stack opened and given an unlimited cache, which
\* reads and writes fill
OpenedCaching(P) ==
    /\ pool = P
    /\ readonly = FALSE
    /\ header = PlainHeader
    /\ \E n \in 0..MaxDepth : \E ims \in [1..n -> {im \in P : Acceptable(im)}] :
          slices = [k \in 1..n |-> [z |-> k - 1, im |-> ims[k], cache |-> NoData, writeable |-> FALSE]]
    /\ d = Len(slices)
    /\ cache_size = -1
    /\ cache = <<>>
    /\ homogeneous = IF d <= 1 THEN Both ELSE Unknown
    /\ last = Idle
    /\ pre = NoPre
    /\ recent = NoHistory
    /\ numbering = NoNumbering
NextSetCached == Read \/ SetSlice \/ QueryHomogeneous \/ Return
SpecSetCached == OpenedCaching({"A", "B"}) /\ [][NextSetCached]_vars

\* the payloads of an unlimited cache: reads over any format, single writes
NextPayload == ReadWith \/ Write \/ QueryHomogeneous \/ Return
SpecPayload == OpenedCaching({"A", "B"}) /\ [][NextPayload]_vars

\* a stack opened read-only: every operation that would change it, and
\* the reads and cache settings it allows
NextReadonly ==
    \/ Read \/ SetCacheSize \/ QueryHomogeneous
    \/ SetInt \/ SetSlice \/ SetIter \/ Append_ \/ Extend \/ Insert
    \/ DelInt \/ DelSlice \/ DelIter \/ Shorten \/ Clear \/ Save
    \/ Return
SpecReadonly == OpenedReadonly({"A"}) /\ [][NextReadonly]_vars

\* the header of a stack, writable or read-only, built from any data that
\* passes the constructor's check; the header operations read nothing of
\* the slices, and the stack here has none
OpenedWithHeader ==
    /\ pool = {"A"}
    /\ readonly \in BOOLEAN
    /\ header \in {_check(raw) : raw \in RawHeaders} \ {<<>>}
    /\ slices = <<>>
    /\ d = 0
    /\ cache_size = 0
    /\ cache = <<>>
    /\ homogeneous = Both
    /\ last = Idle
    /\ pre = NoPre
    /\ recent = NoHistory
    /\ numbering = NoNumbering
NextHeader ==
    \/ HSetItem \/ HSetDefault \/ HUpdate \/ HDelItem \/ HPop \/ HPopItem \/ HClear
    \/ Save \/ Return
SpecHeader == OpenedWithHeader /\ [][NextHeader]_vars

\* opening a file, before there is a stack
Unopened ==
    /\ pool = {}
    /\ readonly = FALSE
    /\ header = <<>>
    /\ slices = <<>>
    /\ d = 0
    /\ cache_size = 0
    /\ cache = <<>>
    /\ homogeneous = Both
    /\ last = Idle
    /\ pre = NoPre
    /\ recent = NoHistory
    /\ numbering = NoNumbering
NextOpen == Open
SpecOpen == Unopened /\ [][NextOpen]_vars

\* everything that inserts or deletes slices
(* The labeling engine, one part for each of its functions *)
NextMerge == Merge
SpecMerge == Unopened /\ [][NextMerge]_vars
NextNumber == Number
SpecNumber == Unopened /\ [][NextNumber]_vars
NextRelabel == Label \/ Relabel
SpecRelabel == Unopened /\ [][NextRelabel]_vars
NextShrink == ShrinkInteger
SpecShrink == Unopened /\ [][NextShrink]_vars
NextShrinkStack == ShrinkStack
SpecShrinkStack == Unopened /\ [][NextShrinkStack]_vars

\* a numbered stack: its construction, reads of its slices, n_labels
NextNumbering == Construct \/ ReadNumbered \/ QueryNLabels
SpecNumbering == Unopened /\ [][NextNumbering]_vars
NextResize ==
    \/ SetInt \/ SetSlice \/ SetIter \/ Append_ \/ Extend \/ Insert
    \/ DelInt \/ DelSlice \/ DelIter \/ Shorten \/ Clear
    \/ QueryHomogeneous \/ Return
SpecResize == Opened({"A", "B", "R"}) /\ [][NextResize]_vars

----------------------------------------------------------------------------
(* What the claims speak of *)

Resident(ss) == {k - 1 : k \in {j \in 1..Len(ss) : ss[j].cache # NoData}}
LastN(s, n) == {s[k] : k \in {j \in 1..Len(s) : j > Len(s) - n}}
\* over the slices that hold an image (not the unwritten space of an insertion)
Written(ss) == {k \in 1..Len(ss) : ss[k].im # Gap}
SameShape(ss) == \A j, k \in Written(ss) : SlShape(ss[j]) = SlShape(ss[k])
SameDType(ss) == \A j, k \in Written(ss) : SlDType(ss[j]) = SlDType(ss[k])

\* an index as Python counts it from the end when negative
Norm(i, n) == IF i < 0 THEN i + n ELSE i
\* the data of the slices, without their indices
Strip(ss) == [k \in 1..Len(ss) |-> [im |-> ss[k].im, cache |-> ss[k].cache]]
\* the sequence s without the elements at the (0-based) indices in X
RemoveAt(s, X) ==
    LET keep == {k \in 1..Len(s) : (k - 1) \notin X}
    IN  [j \in 1..Cardinality(keep) |->
            s[CHOOSE p \in keep : Cardinality({q \in keep : q < p}) = j - 1]]
\* the range [start, stop) the call in progress asked to delete, when it
\* asked for one contiguous range; <<>> otherwise
DeletedRange ==
    CASE last.op = "del_int" ->
             <<Norm(last.a[1], pre.d), Norm(last.a[1], pre.d) + 1>>
      [] last.op = "shorten" -> <<pre.d - last.a[1], pre.d>>
      [] last.op = "clear" -> <<0, pre.d>>
      [] last.op = "del_slice" ->
             LET ix == indices(last.a, pre.d)
             IN  IF ix.step = 1 /\ ix.start < ix.stop
                 THEN <<ix.start, ix.stop>> ELSE <<>>
      [] OTHER -> <<>>
\* the set of indices the index of a delete denotes (what get returns)
Denoted ==
    CASE last.op = "del_int" -> {Norm(last.a[1], pre.d)}
      [] last.op = "del_slice" ->
             LET ix == indices(last.a, pre.d)
             IN  Keys(xrange(ix.start, ix.stop, ix.step))
      [] last.op = "del_iter" -> {Norm(last.a[k], pre.d) : k \in 1..Len(last.a)}
      [] OTHER -> {}

----------------------------------------------------------------------------
\* C1: with cache_size = N > 0, after any sequence of slice data reads and
\* writes at most N slices hold a resident payload, and the slices that hold
\* one are exactly the min(N, k) most recently accessed of the k distinct
\* indices accessed so far.
C1_CacheHoldsMostRecent ==
    (recent # NoHistory /\ cache_size > 0) =>
        /\ Cardinality(Resident(slices)) <= cache_size
        /\ Resident(slices) = LastN(recent, cache_size)

C3_DeleteRemovesDenoted ==
    (last.op \in {"del_int", "del_slice", "del_iter"} /\ last.res = "ok") =>
        Contents(slices) = RemoveAt(Contents(pre.slices), Denoted)

\* the indices the images of the set in progress are meant for, in order
\* (an index equal to the depth asks for an append)
Targets ==
    CASE last.op = "set_int" -> <<Norm(last.a[1], pre.d)>>
      [] last.op = "set_slice" ->
             LET ix == indices(last.a, pre.d)
                 length == slice_len(ix.start, ix.stop, ix.step)
             IN  [k \in 1..Min(length, Len(last.ims)) |-> ix.start + (k - 1) * ix.step]
      [] last.op = "set_iter" -> [k \in 1..Len(last.a) |-> Norm(last.a[k], pre.d)]
      [] OTHER -> <<>>
\* the place in last.ims of the first image the format refuses, 0 if none
FirstRejected ==
    LET bad == {k \in 1..Len(last.ims) : ~Acceptable(last.ims[k])}
    IN  IF bad = {} THEN 0 ELSE CHOOSE k \in bad : \A j \in bad : k <= j
\* the refused image was meant for a slice the stack already had, and so
\* was every image before it
RejectedAtExistingSlice ==
    /\ last.op \in {"set_int", "set_slice", "set_iter"}
    /\ last.res = "Rejected"
    /\ FirstRejected \in 1..Len(Targets)
    /\ \A k \in 1..FirstRejected : Targets[k] < pre.d

C5_SetRangeIsListAssignment ==
    (last.op = "set_slice" /\ last.res = "ok" /\ last.a.step = 1) =>
        LET ix == indices(last.a, pre.d)
            start == ix.start
            stop == Max(ix.stop, ix.start)
            c == Contents(pre.slices)
        IN  /\ Contents(slices) = SubSeq(c, 1, start) \o last.ims \o SubSeqFrom(c, stop)
            /\ d = pre.d - (stop - start) + Len(last.ims)

\* C6: set over a range of step -1 with fewer images than the span writes
\* the images to the first positions of the span (its highest indices),
\* deletes exactly the other positions of the span and keeps every slice
\* outside it; the depth becomes d - (span - len(images)).
C6_SetReversedDeletesRestOfSpan ==
    (last.op = "set_slice" /\ last.res = "ok" /\ last.a.step = -1) =>
        LET ix == indices(last.a, pre.d)
            length == slice_len(ix.start, ix.stop, ix.step)
            c == Contents(pre.slices)
        IN  Len(last.ims) < length =>
               /\ Contents(slices) = SubSeq(c, 1, ix.stop + 1) \o Reverse(last.ims)
                                         \o SubSeqFrom(c, ix.start + 1)
               /\ d = pre.d - (length - Len(last.ims))

\* C7: set over a range whose step is neither +1 nor -1, with a number of
\* images other than the number of indices, fails with ValueError and
\* changes no slice, nor the depth, nor the cache.
C7_SteppedSetNeedsEqualLength ==
    (last.op = "set_slice" /\ last.a.step \notin {1, -1}) =>
        LET ix == indices(last.a, pre.d)
        IN  Len(last.ims) # slice_len(ix.start, ix.stop, ix.step) =>
               /\ last.res = "ValueError"
               /\ slices = pre.slices
               /\ d = pre.d
               /\ cache = pre.cache
               /\ cache_size = pre.cache_size
               /\ homogeneous = pre.hom

C7_Witness ==
    /\ last.op = "set_slice"
    /\ last.a.step = 2
    /\ pre.d = 3
    /\ Len(last.ims) = 1
    /\ slice_len(indices(last.a, pre.d).start, indices(last.a, pre.d).stop, 2) = 2
    /\ last.res = "ValueError"
    /\ Len(pre.cache) = 2

\* C8: deleting the range [start, stop) with caching on leaves in the map the
\* keys that were outside the range, in their order of recency, those at or
\* above stop lowered by stop - start and those below start as they were.
C8_CacheFollowsDelete ==
    (last.res = "ok" /\ pre.cache_size # 0 /\ DeletedRange # <<>>) =>
        LET start == DeletedRange[1]
            stop == DeletedRange[2]
            kept == SelectSeq(pre.cache, LAMBDA i : i < start \/ i >= stop)
        IN  cache = [k \in 1..Len(kept) |->
                        IF kept[k] < start THEN kept[k]
                        ELSE kept[k] - (stop - start)]

C8_Witness ==
    /\ last.op = "del_int"
    /\ last.res = "ok"
    /\ last.a = <<1>>
    /\ pre.cache = <<2, 0, 1>>
    /\ cache = <<1, 0>>

\* C9: setting cache_size on a stack with an active cache to a smaller
\* positive N leaves exactly the N most recently used entries in the map, in
\* their order, and clears the payload of each evicted slice and of no other;
\* setting it to a larger value or to -1 changes neither map nor payloads.
C9_ShrinkEvictsLeastRecent ==
    (last.op = "cache_size" /\ pre.cache_size # 0 /\ last.a[1] # 0) =>
        LET N == last.a[1]
            n == Len(pre.cache)
        IN  /\ cache_size = N
            /\ IF N > 0 /\ N < n
               THEN /\ cache = SubSeq(pre.cache, n - N + 1, n)
                    /\ Len(slices) = Len(pre.slices)
                    /\ \A k \in 1..Len(slices) :
                          slices[k].cache =
                              IF (k - 1) \in Keys(pre.cache) \ Keys(cache)
                              THEN NoData ELSE pre.slices[k].cache
               ELSE cache = pre.cache /\ slices = pre.slices

C9_Witness ==
    /\ last.op = "cache_size"
    /\ pre.cache_size # 0
    /\ last.a[1] > 0
    /\ Len(pre.cache) > last.a[1]
    /\ Len(cache) = last.a[1]
    /\ Resident(slices) # Resident(pre.slices)

\* C10: whenever the homogeneity flags are known, a set Shape bit means all
\* slices have one shape and a set DType bit means all have one element type.
C10_NoStaleFlag ==
    (homogeneous # Unknown) =>
        /\ HasFlag(homogeneous, Shape) => SameShape(slices)
        /\ HasFlag(homogeneous, DType) => SameDType(slices)

\* C11: on a stack opened read-only every mutating operation (set, insert,
\* append, extend, delete, shorten, clear) and save() fails with an error
\* and leaves the slice list, the depth, the cache and the header as they
\* were.
C11_ReadonlyRefusesMutation ==
    (readonly /\ last.op \in {"set_int", "set_slice", "set_iter", "insert", "append",
                               "extend", "del_int", "del_slice", "del_iter", "shorten",
                               "clear", "save"}) =>
        /\ last.res \in {"readonly", "AttributeError"}
        /\ slices = pre.slices
        /\ d = pre.d
        /\ cache = pre.cache
        /\ cache_size = pre.cache_size
        /\ homogeneous = pre.hom
        /\ header = pre.header

C11_Witness ==
    /\ readonly
    /\ last.op = "shorten"
    /\ last.a = <<1>>
    /\ last.res = "readonly"
    /\ d = 3
    /\ Len(cache) = 2
    /\ Resident(slices) # {}

\* C12: after any sequence of header operations (item assignment,
\* setdefault, update, item deletion, pop, clear) on a header that passed
\* its construction check, every field declared required is in the header.
C12_RequiredFieldsStay ==
    \A f \in Fields : ~FieldOpt(f) => f \in DOMAIN header

C12_Witness ==
    /\ last.op = "header_clear"
    /\ last.res = "RuntimeError"
    /\ DOMAIN pre.header = Fields \cup {"x"}
    /\ DOMAIN header # DOMAIN pre.header
    /\ \A f \in Fields : ~FieldOpt(f) => f \in DOMAIN header

\* the name is one of a field declared read-only
NamesReadonly(name) ==
    _get_field_name(name) \in Fields /\ FieldRo(_get_field_name(name))
\* the item (name, value) is one item assignment stores
Storable(item) ==
    LET key == _get_field_name(item[1])
    IN  /\ key # NoField
        /\ key \in Fields => (~FieldRo(key) /\ cast(key, item[2]) # NoValue)
\* the place in the items of an update of the first that names a read-only
\* field, when every item before it is storable; 0 otherwise
ReadonlyItem ==
    LET ro == {k \in 1..Len(last.a) : NamesReadonly(last.a[k][1])}
        j == CHOOSE k \in ro : \A i \in ro : k <= i
    IN  IF ro = {} THEN 0
        ELSE IF \A k \in 1..(j - 1) : Storable(last.a[k]) THEN j ELSE 0
\* the call in progress is a write to a read-only field
WritesReadonlyField ==
    \/ last.op = "header_setitem" /\ NamesReadonly(last.a[1])
    \/ /\ last.op = "header_setdefault"
       /\ NamesReadonly(last.a[1])
       /\ last.a[2] # NoValue
       /\ _get_field_name(last.a[1]) \notin DOMAIN pre.header
    \/ last.op = "header_update" /\ ReadonlyItem > 0
\* the entry of the header under key, NoValue if there is none
Entry(h, key) == IF key \in DOMAIN h THEN h[key] ELSE NoValue

C14_OpenPicksBestEligible ==
    last.op = "open" =>
        LET registry == last.a[1]
            ro == last.a[2]
            r == last.res
            elig == {k \in 1..Len(registry) :
                        registry[k].can_read /\ (ro \/ registry[k].can_write)}
        IN  /\ r.err = "ok" =>
                  /\ r.highest_cls \in elig
                  /\ \A k \in elig : registry[k].mq <= registry[r.highest_cls].mq
            /\ \A j \in 1..Len(r.probed) :
                  /\ r.probed[j] \in elig
                  /\ \A i \in 1..(j - 1) : registry[r.probed[i]].mq # Definitely
            /\ r.err = "ValueError" <=> \A k \in elig : registry[k].mq = NotAtAll

C14_Witness ==
    /\ last.op = "open"
    /\ Len(last.a[1]) = 3
    /\ ~last.a[2]
    /\ last.a[1][1].mq = Likely /\ last.a[1][1].can_read /\ last.a[1][1].can_write
    /\ last.a[1][2].mq = Definitely /\ last.a[1][2].can_read /\ ~last.a[1][2].can_write
    /\ last.a[1][3].mq = Maybe /\ last.a[1][3].can_read /\ last.a[1][3].can_write
    /\ last.res.err = "ok"
    /\ last.res.highest_cls = 1
    /\ last.res.probed = <<1, 3>>


IsSortedUnique(v) == \A i \in 1..(Len(v) - 1) : v[i] < v[i + 1]
ValueSet(v) == {v[i] : i \in 1..Len(v)}

\* C15: for sorted, duplicate-free arrays x and y of one element type,
\* merge(x, y) returns a sorted, duplicate-free array whose value set is the
\* union of the value sets of x and y, and merge(x, empty) is x.
C15_MergeIsSortedUnion ==
    (last.op = "merge" /\ last.a[1].dtype = last.a[2].dtype) =>
        LET x == last.a[1]
            y == last.a[2]
            r == last.res
        IN  /\ r.err = "ok"
            /\ IsSortedUnique(r.out.v)
            /\ ValueSet(r.out.v) = ValueSet(x.v) \cup ValueSet(y.v)
            /\ Len(y.v) = 0 => r.out = x

NonZero(a) == {a[p] : p \in DOMAIN a} \ {0}

\* C16: for every integer array a, number(a) in either mode gives equal
\* values equal numbers and different values different numbers, gives a
\* pixel 0 exactly when its value is zero, uses exactly the numbers 1..N for
\* the non-zero values, and returns N, the count of distinct non-zero values.
C16_NumberIsConsecutive ==
    last.op = "number" =>
        LET a == last.a[1]
            r == last.res
        IN  /\ r.err = "ok"
            /\ \A p, q \in DOMAIN a : a[p] = a[q] <=> r.out[p] = r.out[q]
            /\ \A p \in DOMAIN a : r.out[p] = 0 <=> a[p] = 0
            /\ {r.out[p] : p \in {q \in DOMAIN a : a[q] # 0}} = 1..r.N
            /\ r.N = Cardinality(NonZero(a))

\* C17: number(a, ordered=True) keeps the order of the values: of two
\* non-zero values u < v that occur in a, u gets the smaller number, also
\* when a holds negative values next to zero.
C17_OrderedNumberKeepsOrder ==
    (last.op = "number" /\ last.a[2]) =>
        LET a == last.a[1]
            r == last.res
        IN  /\ r.err = "ok"
            /\ \A p, q \in DOMAIN a :
                  (a[p] # 0 /\ a[q] # 0 /\ a[p] < a[q]) => r.out[p] < r.out[q]

\* the maximal connected region of pixels of a that hold the value of p
RECURSIVE Reach(_, _, _, _)
Reach(S, a, structure, k) ==
    IF k = 0 THEN S
    ELSE Reach(S \cup {q \in DOMAIN a : \E p \in S : a[q] = a[p] /\ Adjacent(p, q, structure)},
               a, structure, k - 1)
Region(a, p, structure) == Reach({p}, a, structure, Cardinality(DOMAIN a))
Regions(a, structure) == {Region(a, p, structure) : p \in {q \in DOMAIN a : a[q] # 0}}

\* C18: for every label array a, relabel(a) never gives one label to pixels
\* of different values, gives every label to exactly one maximal connected
\* region of equal-valued pixels, keeps the zero pixels at 0, uses exactly
\* the labels 1..M and returns M, the number of maximal connected
\* same-valued non-zero regions.
C18_RelabelSplitsRegions ==
    last.op = "relabel" =>
        LET a == last.a[1]
            structure == last.a[2]
            r == last.res
        IN  /\ r.err = "ok"
            /\ \A p, q \in DOMAIN a : r.out[p] = r.out[q] => a[p] = a[q]
            /\ \A p \in DOMAIN a :
                  a[p] # 0 => {q \in DOMAIN a : r.out[q] = r.out[p]} = Region(a, p, structure)
            /\ \A p \in DOMAIN a : r.out[p] = 0 <=> a[p] = 0
            /\ {r.out[p] : p \in {q \in DOMAIN a : a[q] # 0}} = 1..r.N
            /\ r.N = Cardinality(Regions(a, structure))

\* relabel([[2, 0, 2], [-1, 2, -1]]) with the default structure: the value
\* 2 stands in three regions and -1 in two
C18_Witness ==
    /\ last.op = "relabel"
    /\ last.a[2] = "cross"
    /\ DOMAIN last.a[1] = Pixels(2, 3)
    /\ last.a[1][<<1, 1>>] = 2 /\ last.a[1][<<1, 2>>] = 0 /\ last.a[1][<<1, 3>>] = 2
    /\ last.a[1][<<2, 1>>] = -1 /\ last.a[1][<<2, 2>>] = 2 /\ last.a[1][<<2, 3>>] = -1
    /\ last.res.err = "ok"
    /\ last.res.N = 5
    /\ last.res.out[<<1, 1>>] # last.res.out[<<1, 3>>]

\* C19: relabel(label(a)) is label(a) up to the names of the labels, for
\* every array a and either structure: two pixels share a label after
\* relabel exactly when label gave them one label, the background stays 0
\* and the component count returned is the one label returned.
C19_RelabelKeepsLabels ==
    (last.op = "relabel" /\ last.a[3].op = "label" /\ last.a[2] = last.a[3].a[2]) =>
        LET l == last.a[3].res
            r == last.res
        IN  /\ r.err = "ok"
            /\ \A p, q \in DOMAIN l.out : r.out[p] = r.out[q] <=> l.out[p] = l.out[q]
            /\ \A p \in DOMAIN l.out : r.out[p] = 0 <=> l.out[p] = 0
            /\ r.N = l.N

\* label([[2, 0, 1], [1, 0, -1]]) finds two components, relabel of them too
C19_Witness ==
    /\ last.op = "relabel"
    /\ last.a[3].op = "label"
    /\ last.a[2] = "cross" /\ last.a[3].a[2] = "cross"
    /\ DOMAIN last.a[1] = Pixels(2, 3)
    /\ last.a[3].a[1][<<1, 1>>] = 2 /\ last.a[3].a[1][<<1, 2>>] = 0
    /\ last.a[3].a[1][<<1, 3>>] = 1 /\ last.a[3].a[1][<<2, 1>>] = 1
    /\ last.a[3].a[1][<<2, 2>>] = 0 /\ last.a[3].a[1][<<2, 3>>] = -1
    /\ last.a[3].res.N = 2
    /\ last.res.err = "ok"
    /\ last.res.N = 2
    /\ last.res.out = last.a[1]

Example ==
    [p \in Pixels(2, 3) |->
        IF p \in {<<1, 1>>, <<1, 2>>, <<2, 2>>} THEN 1 ELSE IF p = <<2, 3>> THEN 2 ELSE 0]

\* C20: relabel of [[1, 1, 0], [0, 1, 2]] with 4-connectivity gives the
\* 1-valued pixels separate labels and returns a label count of at least 3.
C20_ExampleSplits ==
    (last.op = "relabel" /\ last.a[1] = Example /\ last.a[2] = "cross") =>
        /\ last.res.err = "ok"
        /\ \E p, q \in DOMAIN Example :
              Example[p] = 1 /\ Example[q] = 1 /\ last.res.out[p] # last.res.out[q]
        /\ last.res.N >= 3

\* C20, amended: relabel of [[1, 1, 0], [0, 1, 2]] with 4-connectivity keeps
\* the three 1-valued pixels, which are 4-connected, under one label, gives
\* the 2-valued pixel another and returns a label count of 2.
C20_ExampleStaysWhole ==
    (last.op = "relabel" /\ last.a[1] = Example /\ last.a[2] = "cross") =>
        /\ last.res.err = "ok"
        /\ \A p, q \in DOMAIN Example :
              (Example[p] = 1 /\ Example[q] = 1) => last.res.out[p] = last.res.out[q]
        /\ \A p, q \in DOMAIN Example :
              (Example[p] = 1 /\ Example[q] = 2) =>
                  (last.res.out[p] # last.res.out[q] /\ last.res.out[q] # 0)
        /\ last.res.N = 2

C20_Witness ==
    /\ last.op = "relabel"
    /\ last.a[1] = Example
    /\ last.a[2] = "cross"
    /\ last.a[3] = Idle
    /\ last.res.err = "ok"
    /\ last.res.out = Example

\* the range of dt covers every value of im
Covers(dt, im) ==
    \A p \in DOMAIN im.v : get_dtype_min(dt) <= im.v[p] /\ im.v[p] <= get_dtype_max(dt)
\* the least type shrink_integer may go down to: min_dt, or one byte of
\* the signedness of the image where min_dt is None
Floor(im, min_dt) ==
    IF min_dt = NoType THEN [kind |-> im.dtype.kind, itemsize |-> 1] ELSE min_dt

\* C21: shrink_integer(a, min_dt) returns an array whose integer type has
\* the signedness of min_dt and a width not below the width of min_dt, and
\* that type is the smallest such type whose range covers the minimum and
\* the maximum of a.
C21_ShrinkIsSmallestAboveFloor ==
    (last.op = "shrink_integer" /\ last.res.err = "ok") =>
        LET im == last.a[1]
            floor == Floor(im, last.a[2])
            dt == last.res.out.dtype
        IN  /\ dt.kind = floor.kind
            /\ dt.itemsize >= floor.itemsize
            /\ Covers(dt, im)
            /\ \A t \in IntTypes :
                  (t.kind = floor.kind /\ t.itemsize >= floor.itemsize /\ Covers(t, im))
                      => t.itemsize >= dt.itemsize

\* C22: shrink_integer never clips: whenever it returns, every value of a
\* is within the range of the type of the result, the result holds the
\* values of a, and converting it back to the type of a gives a again.
C22_ShrinkNeverClips ==
    (last.op = "shrink_integer" /\ last.res.err = "ok") =>
        LET im == last.a[1]
            out == last.res.out
        IN  /\ Covers(out.dtype, im)
            /\ out.v = im.v
            /\ astype(out, im.dtype) = im

\* an 8-byte signed image holding the least value of the 2-byte signed type
\* and 1 is shrunk to 2 bytes
C22_Witness ==
    /\ last.op = "shrink_integer"
    /\ last.a[1].dtype = [kind |-> "i", itemsize |-> 8]
    /\ last.a[2] = NoType
    /\ DOMAIN last.a[1].v = Pixels(1, 2)
    /\ last.a[1].v[<<1, 1>>] = get_dtype_min([kind |-> "i", itemsize |-> 2])
    /\ last.a[1].v[<<1, 2>>] = 1
    /\ last.res.err = "ok"
    /\ last.res.out.dtype = [kind |-> "i", itemsize |-> 2]
    /\ astype(last.res.out, last.a[1].dtype) = last.a[1]

\* C23: every slice payload resident in the cache is a read-only array,
\* whether it entered through a data read or through a data write.
C23_ResidentPayloadsAreReadOnly ==
    \A k \in 1..Len(slices) :
        slices[k].cache # NoData => ~slices[k].writeable

WholeStack == numbering.strategy \in {"renumber", "values"}

\* C24: for a ConsecutivelyNumberImageStack numbering the whole stack, once
\* the table of unique values (or the renumbered array) has been computed,
\* every later slice read and n_labels query reuses it: it computes nothing
\* again and completes without error.
C24_TableComputedOnce ==
    [][(WholeStack /\ numbering.computed >= 1) =>
          (numbering'.computed = numbering.computed /\ last'.res.err = "ok")]_vars

\* C25: numbering the whole stack gives equal values in different slices the
\* same number, and n_labels is the count of the distinct non-zero values
\* over all slices (2 for the slices [[0,1],[0,0]], [[2,2],[0,0]],
\* [[0,0],[0,0]]).
C25_WholeStackNumbersAgree ==
    WholeStack =>
        /\ \A j, k \in numbering.seen :
              \A p \in DOMAIN numbering.ims[j].v : \A q \in DOMAIN numbering.ims[k].v :
                  numbering.ims[j].v[p] = numbering.ims[k].v[q]
                      => numbering.outs[j][p] = numbering.outs[k][q]
        /\ last.op = "n_labels" =>
              /\ last.res.err = "ok"
              /\ last.res.N = Cardinality(UNION {NonZero(numbering.ims[k].v) :
                                                    k \in 1..Len(numbering.ims)})

\* C27: a ConsecutivelyNumberImageStack built with ordered=True and
\* per_slice=False numbers by a strategy that keeps the sort order of the
\* values across the whole stack, whether or not the shapes agree: the
\* numbers its slices return are in the order of the values they stand for;
\* the direct renumbering of the whole stack, which promises no order, is
\* chosen only with ordered=False.
C27_OrderedSelectsOrderPreserving ==
    /\ (WholeStack /\ numbering.ordered) =>
          \A j, k \in numbering.seen :
              \A p \in DOMAIN numbering.ims[j].v : \A q \in DOMAIN numbering.ims[k].v :
                  (/\ numbering.ims[j].v[p] # 0
                   /\ numbering.ims[k].v[q] # 0
                   /\ numbering.ims[j].v[p] < numbering.ims[k].v[q])
                      => numbering.outs[j][p] < numbering.outs[k][q]
    /\ numbering.strategy = "renumber" => ~numbering.ordered

\* the calls that hand a list of ranges to _delete: every deletion, and the
\* assignment to a slice of step 1 or -1 that is given fewer images than the
\* slice has indices
CallsDelete ==
    \/ last.op \in {"del_int", "del_slice", "del_iter", "shorten", "clear"}
    \/ /\ last.op = "set_slice"
       /\ LET ix == indices(last.a, pre.d)
          IN  /\ ix.step \in {1, -1}
              /\ Len(last.ims) < slice_len(ix.start, ix.stop, ix.step)

\* C26: every list of ranges that a deletion (by integer, slice or
\* iterable), an assignment to a slice of unit step, shorten or clear hands
\* to _delete is within the contract of _delete: 0 <= start < stop <= d for
\* every range, the ranges disjoint and in descending order.
C26_DeleteGetsRangesInContract ==
    CallsDelete => last.res # "OutOfContract"

\* C28: a ShrinkIntegerImageStack with per_slice=False gives all slices one
\* element type whose range covers the values of every slice (the minimum of
\* a slice counting as 0 only where that slice is unsigned), so no value of
\* any slice is clipped by the conversion.
C28_StackTypeCoversAllSlices ==
    (last.op = "ShrinkIntegerImageStack" /\ last.res.err = "ok") =>
        LET ims == last.a[1]
            out == last.res.out
        IN  \A k \in 1..Len(ims) :
                /\ out[k].dtype = out[1].dtype
                /\ Covers(out[k].dtype, ims[k])
                /\ out[k].v = ims[k].v

\* the call replaced the data of an existing slice of a stack of more than
\* one slice with an image the format takes
ReplacesData ==
    /\ pre.d > 1
    /\ \/ last.op = "write"
       \/ /\ last.op = "set_int"
          /\ (IF last.a[1] < 0 THEN last.a[1] + pre.d ELSE last.a[1]) \in 0..(pre.d - 1)
    /\ Acceptable(last.ims[1])

\* C29: on a writable stack of more than one slice, replacing the data of a
\* slice succeeds whether or not the homogeneity flags have been queried
\* before; where they are still unknown (None) the call completes without
\* error and they stay unknown until the next query.
C29_SetSucceedsWithFlagsUnknown ==
    ReplacesData =>
        /\ last.res = "ok"
        /\ pre.hom = Unknown => homogeneous = Unknown

\* C30: while caching is enabled, an index is a key of the LRU map exactly
\* when the slice at that index holds a resident payload, also after a read
\* whose _get_data raised; so a read that returns leaves its slice with a
\* payload and never hands out the empty one.
C30_KeysAreResidentSlices ==
    cache_size # 0 =>
        /\ Keys(cache) = Resident(slices)
        /\ (last.op = "read" /\ last.res = "ok") => slices[last.a[1] + 1].cache # NoData

============================================================================
